---- MODULE Spec2Model ----
(***************************************************************************)
(* Thai national ID card reader: the card session orchestrator             *)
(* (thai-id-card-reader.ts), the two applet readers (personal-applet.ts,   *)
(* nhso-applet.ts), the two-phase read helpers (utils/reader.ts) and the   *)
(* APDU command catalogue (apdu/person, apdu/nhso).                        *)
(*                                                                         *)
(* Bytes are integers 0..255, buffers are sequences of bytes, and strings  *)
(* are sequences of character codes (ASCII).  The handlers are JavaScript  *)
(* async functions on one thread: the code between two awaits runs         *)
(* atomically, so one action is one driver notification handled up to its  *)
(* first await, or one command response followed by the continuation of    *)
(* the read cycle up to the next command it issues.                        *)
(***************************************************************************)
EXTENDS Integers, Sequences, FiniteSets, TLC

VARIABLES
    isInitialized,  \* ThaiIdCardReader.isInitialized
    cardInserted,   \* ThaiIdCardReader.cardInserted
    devices,        \* ThaiIdCardReader.devices is non-null (driver listeners attached)
    options,        \* ThaiIdCardReader.options
    listeners,      \* the application has listeners on the reader (EventEmitter.on)
    registered,     \* device objects carrying this reader's card listeners
    cardsIn,        \* devices whose last card notification was an insertion
    exited,         \* process.exit(1) has been called
    cycle,          \* the read cycles (invocations of handleCardInserted), by slot
    emitted,        \* the outbound notifications emitted by the last step, in order
    call            \* a call of a pure decoding function: its name, argument, result

sessionVars == <<isInitialized, cardInserted, devices, options, cardsIn, listeners, registered, exited,
                 cycle, emitted>>
vars == <<isInitialized, cardInserted, devices, options, cardsIn, listeners, registered, exited,
          cycle, emitted, call>>

(***************************************************************************)
(* The command catalogue                                                   *)
(***************************************************************************)
apduPerson ==
    [ SELECT         |-> <<\H00, \Ha4, \H04, \H00, \H08>>,
      THAI_CARD      |-> <<\Ha0, \H00, \H00, \H00, \H54, \H48, \H00, \H01>>,
      CMD_CID        |-> <<\H80, \Hb0, \H00, \H04, \H02, \H00, \H0d>>,
      CMD_THFULLNAME |-> <<\H80, \Hb0, \H00, \H11, \H02, \H00, \H64>>,
      CMD_ENFULLNAME |-> <<\H80, \Hb0, \H00, \H75, \H02, \H00, \H64>>,
      CMD_BIRTH      |-> <<\H80, \Hb0, \H00, \Hd9, \H02, \H00, \H08>>,
      CMD_GENDER     |-> <<\H80, \Hb0, \H00, \He1, \H02, \H00, \H01>>,
      CMD_ISSUER     |-> <<\H80, \Hb0, \H00, \Hf6, \H02, \H00, \H64>>,
      CMD_ISSUE      |-> <<\H80, \Hb0, \H01, \H67, \H02, \H00, \H08>>,
      CMD_EXPIRE     |-> <<\H80, \Hb0, \H01, \H6f, \H02, \H00, \H08>>,
      CMD_ADDRESS    |-> <<\H80, \Hb0, \H15, \H79, \H02, \H00, \H64>>,
      CMD_PHOTO1     |-> <<\H80, \Hb0, \H01, \H7b, \H02, \H00, \Hff>>,
      CMD_PHOTO2     |-> <<\H80, \Hb0, \H02, \H7a, \H02, \H00, \Hff>>,
      CMD_PHOTO3     |-> <<\H80, \Hb0, \H03, \H79, \H02, \H00, \Hff>>,
      CMD_PHOTO4     |-> <<\H80, \Hb0, \H04, \H78, \H02, \H00, \Hff>>,
      CMD_PHOTO5     |-> <<\H80, \Hb0, \H05, \H77, \H02, \H00, \Hff>>,
      CMD_PHOTO6     |-> <<\H80, \Hb0, \H06, \H76, \H02, \H00, \Hff>>,
      CMD_PHOTO7     |-> <<\H80, \Hb0, \H07, \H75, \H02, \H00, \Hff>>,
      CMD_PHOTO8     |-> <<\H80, \Hb0, \H08, \H74, \H02, \H00, \Hff>>,
      CMD_PHOTO9     |-> <<\H80, \Hb0, \H09, \H73, \H02, \H00, \Hff>>,
      CMD_PHOTO10    |-> <<\H80, \Hb0, \H0a, \H72, \H02, \H00, \Hff>>,
      CMD_PHOTO11    |-> <<\H80, \Hb0, \H0b, \H71, \H02, \H00, \Hff>>,
      CMD_PHOTO12    |-> <<\H80, \Hb0, \H0c, \H70, \H02, \H00, \Hff>>,
      CMD_PHOTO13    |-> <<\H80, \Hb0, \H0d, \H6f, \H02, \H00, \Hff>>,
      CMD_PHOTO14    |-> <<\H80, \Hb0, \H0e, \H6e, \H02, \H00, \Hff>>,
      CMD_PHOTO15    |-> <<\H80, \Hb0, \H0f, \H6d, \H02, \H00, \Hff>>,
      CMD_PHOTO16    |-> <<\H80, \Hb0, \H10, \H6c, \H02, \H00, \Hff>>,
      CMD_PHOTO17    |-> <<\H80, \Hb0, \H11, \H6b, \H02, \H00, \Hff>>,
      CMD_PHOTO18    |-> <<\H80, \Hb0, \H12, \H6a, \H02, \H00, \Hff>>,
      CMD_PHOTO19    |-> <<\H80, \Hb0, \H13, \H69, \H02, \H00, \Hff>>,
      CMD_PHOTO20    |-> <<\H80, \Hb0, \H14, \H68, \H02, \H00, \Hff>> ]

apduNhso ==
    [ SELECT |-> <<\H00, \Ha4, \H04, \H00, \H08, \Ha0, \H00, \H00, \H00, \H54, \H48,
                   \H00, \H83>>,
      CMD_MAIN_INSCL             |-> <<\H80, \Hb0, \H00, \H04, \H02, \H00, \H3c>>,
      CMD_SUB_INSCL              |-> <<\H80, \Hb0, \H00, \H40, \H02, \H00, \H64>>,
      CMD_MAIN_HOSPITAL_NAME     |-> <<\H80, \Hb0, \H00, \Ha4, \H02, \H00, \H50>>,
      CMD_SUB_HOSPITAL_NAME      |-> <<\H80, \Hb0, \H00, \Hf4, \H02, \H00, \H50>>,
      CMD_PAID_TYPE              |-> <<\H80, \Hb0, \H01, \H44, \H02, \H00, \H01>>,
      CMD_ISSUE_DATE             |-> <<\H80, \Hb0, \H01, \H45, \H02, \H00, \H08>>,
      CMD_EXPIRE_DATE            |-> <<\H80, \Hb0, \H01, \H4d, \H02, \H00, \H08>>,
      CMD_UPDATE_DATE            |-> <<\H80, \Hb0, \H01, \H55, \H02, \H00, \H08>>,
      CMD_CHANGE_HOSPITAL_AMOUNT |-> <<\H80, \Hb0, \H01, \H5d, \H02, \H00, \H01>> ]

\* a PHOTO_COMMANDS that reads segment 3 before segment 2
PHOTO_COMMANDS_Swapped ==
    << apduPerson.CMD_PHOTO1,  apduPerson.CMD_PHOTO3,  apduPerson.CMD_PHOTO2,
       apduPerson.CMD_PHOTO4,  apduPerson.CMD_PHOTO5,  apduPerson.CMD_PHOTO6,
       apduPerson.CMD_PHOTO7,  apduPerson.CMD_PHOTO8,  apduPerson.CMD_PHOTO9,
       apduPerson.CMD_PHOTO10, apduPerson.CMD_PHOTO11, apduPerson.CMD_PHOTO12,
       apduPerson.CMD_PHOTO13, apduPerson.CMD_PHOTO14, apduPerson.CMD_PHOTO15,
       apduPerson.CMD_PHOTO16, apduPerson.CMD_PHOTO17, apduPerson.CMD_PHOTO18,
       apduPerson.CMD_PHOTO19, apduPerson.CMD_PHOTO20 >>

\* PersonalApplet.PHOTO_COMMANDS: the photo segments in reading order
PHOTO_COMMANDS ==
    << apduPerson.CMD_PHOTO1,  apduPerson.CMD_PHOTO2,  apduPerson.CMD_PHOTO3,
       apduPerson.CMD_PHOTO4,  apduPerson.CMD_PHOTO5,  apduPerson.CMD_PHOTO6,
       apduPerson.CMD_PHOTO7,  apduPerson.CMD_PHOTO8,  apduPerson.CMD_PHOTO9,
       apduPerson.CMD_PHOTO10, apduPerson.CMD_PHOTO11, apduPerson.CMD_PHOTO12,
       apduPerson.CMD_PHOTO13, apduPerson.CMD_PHOTO14, apduPerson.CMD_PHOTO15,
       apduPerson.CMD_PHOTO16, apduPerson.CMD_PHOTO17, apduPerson.CMD_PHOTO18,
       apduPerson.CMD_PHOTO19, apduPerson.CMD_PHOTO20 >>

\* ThaiIdCardReader.ALL_FIELDS
ALL_FIELDS ==
    << "cid", "name", "nameEn", "dob", "gender", "issuer", "issueDate", "expireDate",
       "address", "photo", "nhso", "laserId" >>

\* ThaiIdCardReader.STATUS
STATUS ==
    [ SUCCESS |-> 200, DEVICE_ACTIVATED |-> 201, CARD_INSERTED |-> 202,
      CARD_REMOVED |-> 205, INCORRECT_CARD |-> 400, DEVICE_NOT_FOUND |-> 404,
      ERROR |-> 500 ]

\* getLaser: its applet selection, its read command and the length byte of its re-read
LaserSelect ==
    <<\H00, \Ha4, \H04, \H00, \H08, \Ha0, \H00, \H00, \H00, \H84, \H06, \H00, \H02>>
LaserCommand == <<\H80, \H00, \H00, \H00, \H07>>
LaserRereadLength == <<\H10>>

(***************************************************************************)
(* Buffers and strings                                                     *)
(***************************************************************************)
\* the characters String.prototype.trim removes (ASCII range)
Whitespace == {9, 10, 11, 12, 13, 32}

\* String.prototype.trim
RECURSIVE TrimStart(_)
TrimStart(s) ==
    IF s # <<>> /\ Head(s) \in Whitespace THEN TrimStart(Tail(s)) ELSE s

RECURSIVE TrimEnd(_)
TrimEnd(s) ==
    IF s # <<>> /\ s[Len(s)] \in Whitespace THEN TrimEnd(SubSeq(s, 1, Len(s) - 1)) ELSE s

Trim(s) == TrimEnd(TrimStart(s))

\* slice(0, -n) of a Buffer or a string
SliceOff(s, n) == SubSeq(s, 1, Len(s) - n)

\* slice(0, n) of a string
SliceTo(s, n) == SubSeq(s, 1, IF Len(s) < n THEN Len(s) ELSE n)

\* Buffer.toString(): UTF-8 decoding; a byte outside ASCII that starts no valid
\* sequence decodes to U+FFFD (the buffers of the model hold no multi-byte sequence)
BufferToString(buf) == [i \in 1..Len(buf) |-> IF buf[i] < 128 THEN buf[i] ELSE 65533]

\* one hexadecimal digit, lower case, as a character
HexDigit(n) == IF n < 10 THEN 48 + n ELSE 87 + n

\* Buffer.toString('hex')
BufferToHex(buf) ==
    [i \in 1..(2 * Len(buf)) |->
        IF i % 2 = 1 THEN HexDigit(buf[(i + 1) \div 2] \div 16)
                     ELSE HexDigit(buf[i \div 2] % 16)]

\* legacy.decode(buffer, 'tis620'): ASCII is kept, 0xA1..0xDA and 0xDF..0xFB are the
\* Thai block U+0E01..U+0E5B, every other byte has no character
Tis620Decode(buf) ==
    [i \in 1..Len(buf) |->
        IF buf[i] < 128 THEN buf[i]
        ELSE IF buf[i] \in (161..218) \cup (223..251) THEN buf[i] - 160 + 3584
        ELSE 65533]

\* String.prototype.split(sep) for a one-character separator
RECURSIVE Split(_, _)
Split(s, sep) ==
    IF \E i \in 1..Len(s) : s[i] = sep
    THEN LET i == CHOOSE j \in 1..Len(s) : s[j] = sep /\ \A k \in 1..(j - 1) : s[k] # sep
         IN  <<SubSeq(s, 1, i - 1)>> \o Split(SubSeq(s, i + 1, Len(s)), sep)
    ELSE <<s>>

\* Array.prototype.join(sep) over strings
RECURSIVE Join(_, _)
Join(parts, sep) ==
    IF parts = <<>> THEN <<>>
    ELSE IF Len(parts) = 1 THEN parts[1]
    ELSE parts[1] \o sep \o Join(Tail(parts), sep)

\* Array.prototype.filter(part => part.length > 0)
RECURSIVE NonEmpty(_)
NonEmpty(parts) ==
    IF parts = <<>> THEN <<>>
    ELSE IF Head(parts) # <<>> THEN <<Head(parts)>> \o NonEmpty(Tail(parts))
    ELSE NonEmpty(Tail(parts))

\* the decimal rendering of a natural number
RECURSIVE NatToString(_)
NatToString(n) ==
    IF n < 10 THEN <<48 + n>> ELSE NatToString(n \div 10) \o <<48 + (n % 10)>>

\* the number a template literal renders: "NaN", or the decimal digits with a sign
NumberToString(v) ==
    IF v.nan THEN <<78, 97, 78>>
    ELSE IF v.val < 0 THEN <<45>> \o NatToString(0 - v.val)
    ELSE NatToString(v.val)

\* the value of a digit character in a radix, -1 when it is no digit of the radix
DigitValue(c, radix) ==
    LET v == IF c \in 48..57 THEN c - 48
             ELSE IF c \in 97..122 THEN c - 87
             ELSE IF c \in 65..90 THEN c - 55
             ELSE 0 - 1
    IN  IF v >= 0 /\ v < radix THEN v ELSE 0 - 1

\* the value of the longest prefix of s made of digits of the radix, from acc
RECURSIVE DigitsValue(_, _, _)
DigitsValue(s, radix, acc) ==
    IF s = <<>> \/ DigitValue(Head(s), radix) < 0 THEN acc
    ELSE DigitsValue(Tail(s), radix, acc * radix + DigitValue(Head(s), radix))

\* parseInt(s, radix); radix 0 stands for the omitted radix (10, or 16 after "0x")
ParseInt(s, radix) ==
    LET t      == TrimStart(s)
        neg    == t # <<>> /\ Head(t) = 45
        u      == IF t # <<>> /\ Head(t) \in {43, 45} THEN Tail(t) ELSE t
        hex    == radix \in {0, 16} /\ Len(u) >= 2 /\ u[1] = 48 /\ u[2] \in {120, 88}
        r      == IF hex THEN 16 ELSE IF radix = 0 THEN 10 ELSE radix
        digits == IF hex THEN SubSeq(u, 3, Len(u)) ELSE u
        n      == DigitsValue(digits, r, 0)
    IN  IF digits = <<>> \/ DigitValue(Head(digits), r) < 0
        THEN [nan |-> TRUE, val |-> 0]
        ELSE [nan |-> FALSE, val |-> IF neg THEN 0 - n ELSE n]

Minus543(v) == IF v.nan THEN v ELSE [nan |-> FALSE, val |-> v.val - 543]

(***************************************************************************)
(* Field decoders                                                          *)
(***************************************************************************)
\* a decoder's outcome: a value, or a thrown error
Value(s) == [ok |-> TRUE, val |-> s]
Thrown == [ok |-> FALSE, val |-> <<>>]

\* a convertBuddhistToGregorianDate with the policy of the insurance reader: the
\* empty string for a text that is not 8 characters long
convertBuddhistToGregorianDateLenient(buddhistDateStr) ==
    IF Len(buddhistDateStr) # 8 THEN [ok |-> TRUE, val |-> <<>>]
    ELSE [ok |-> TRUE,
          val |-> NumberToString(Minus543(ParseInt(SubSeq(buddhistDateStr, 1, 4), 10)))
                     \o <<45>> \o SubSeq(buddhistDateStr, 5, 6)
                     \o <<45>> \o SubSeq(buddhistDateStr, 7, 8)]

\* PersonalApplet.convertBuddhistToGregorianDate
convertBuddhistToGregorianDate(buddhistDateStr) ==
    IF Len(buddhistDateStr) # 8 THEN Thrown
    ELSE LET buddhistYear  == ParseInt(SubSeq(buddhistDateStr, 1, 4), 10)
             month         == SubSeq(buddhistDateStr, 5, 6)
             day           == SubSeq(buddhistDateStr, 7, 8)
             gregorianYear == Minus543(buddhistYear)
         IN  Value(NumberToString(gregorianYear) \o <<45>> \o month \o <<45>> \o day)

\* NhsoApplet.convertBuddhistDate
convertBuddhistDate(buddhistDate) ==
    IF buddhistDate = <<>> \/ Len(buddhistDate) # 8 THEN <<>>
    ELSE LET year  == Minus543(ParseInt(SubSeq(buddhistDate, 1, 4), 0))
             month == SubSeq(buddhistDate, 5, 6)
             day   == SubSeq(buddhistDate, 7, 8)
         IN  NumberToString(year) \o <<45>> \o month \o <<45>> \o day


\* a parseNameComponents that joins every token, not the first four
parseNameComponentsAllTokens(decodedData) ==
    LET nameArray == Split(Trim(SliceOff(decodedData, 2)), 35)
    IN  Trim(Join(NonEmpty([i \in 1..Len(nameArray) |-> Trim(nameArray[i])]), <<32>>))

\* PersonalApplet.parseNameComponents: the fullname component
parseNameComponents(decodedData) ==
    LET nameArray  == Split(Trim(SliceOff(decodedData, 2)), 35)
        part(i)    == IF i <= Len(nameArray) THEN Trim(nameArray[i]) ELSE <<>>
        components == <<part(1), part(2), part(3), part(4)>>
    IN  Trim(Join(NonEmpty(components), <<32>>))

\* Array.prototype.filter(part => part && part.trim().length > 0)
RECURSIVE NonBlank(_)
NonBlank(parts) ==
    IF parts = <<>> THEN <<>>
    ELSE IF Trim(Head(parts)) # <<>> THEN <<Head(parts)>> \o NonBlank(Tail(parts))
    ELSE NonBlank(Tail(parts))

\* a parseAddressComponents that drops only the tokens of length 0
parseAddressComponentsKeepsBlank(addressStr) ==
    Trim(Join(NonEmpty(Split(addressStr, 35)), <<32>>))

\* PersonalApplet.parseAddressComponents: the fullAddress component
parseAddressComponents(addressStr) ==
    LET addressParts == Split(addressStr, 35)
    IN  Trim(Join(NonBlank(addressParts), <<32>>))

\* Buffer.from(hex, 'hex')
HexToBytes(hex) ==
    [i \in 1..(Len(hex) \div 2) |->
        16 * DigitValue(hex[2 * i - 1], 16) + DigitValue(hex[2 * i], 16)]

\* one character of the base64 alphabet
Base64Char(n) ==
    IF n < 26 THEN 65 + n
    ELSE IF n < 52 THEN 97 + (n - 26)
    ELSE IF n < 62 THEN 48 + (n - 52)
    ELSE IF n = 62 THEN 43 ELSE 47

\* Buffer.toString('base64')
RECURSIVE Base64(_)
Base64(bytes) ==
    IF bytes = <<>> THEN <<>>
    ELSE IF Len(bytes) = 1
    THEN <<Base64Char(bytes[1] \div 4), Base64Char((bytes[1] % 4) * 16), 61, 61>>
    ELSE IF Len(bytes) = 2
    THEN <<Base64Char(bytes[1] \div 4),
           Base64Char((bytes[1] % 4) * 16 + bytes[2] \div 16),
           Base64Char((bytes[2] % 16) * 4), 61>>
    ELSE <<Base64Char(bytes[1] \div 4),
           Base64Char((bytes[1] % 4) * 16 + bytes[2] \div 16),
           Base64Char((bytes[2] % 16) * 4 + bytes[3] \div 64),
           Base64Char(bytes[3] % 64)>> \o Base64(SubSeq(bytes, 4, Len(bytes)))

\* the image-encoding collaborator: the bytes a hex string spells, in base64
hex2imagebase64(photoHex) == Base64(HexToBytes(photoHex))

\* PersonalApplet.extractCitizenId, extractGender: the decoding of the response
extractCitizenId(data) == Value(Trim(BufferToString(SliceOff(data, 2))))
extractGender(data) == Value(Trim(BufferToString(SliceOff(data, 2))))

\* PersonalApplet.extractThaiName, extractEnglishName
extractThaiName(data) == Value(parseNameComponents(Tis620Decode(data)))
extractEnglishName(data) == Value(parseNameComponents(Tis620Decode(data)))

\* PersonalApplet.extractDateOfBirth, extractIssueDate, extractExpireDate
extractDateOfBirth(data) ==
    convertBuddhistToGregorianDate(Trim(BufferToString(SliceOff(data, 2))))
extractIssueDate(data) ==
    convertBuddhistToGregorianDate(Trim(BufferToString(SliceOff(data, 2))))
extractExpireDate(data) ==
    convertBuddhistToGregorianDate(Trim(BufferToString(SliceOff(data, 2))))

\* an extractIssuer that trims the decoded text before it drops the status bytes
extractIssuerTrimFirst(data) == Value(SliceOff(Trim(Tis620Decode(data)), 2))

\* PersonalApplet.extractIssuer
extractIssuer(data) == Value(Trim(SliceOff(Tis620Decode(data), 2)))

\* PersonalApplet.extractAddress
extractAddress(data) ==
    LET addressStr == Trim(SliceOff(Tis620Decode(data), 2))
    IN  IF Len(addressStr) = 0 THEN Value(<<>>)
        ELSE Value(parseAddressComponents(addressStr))

\* an extractPhoto that keeps the status bytes of a segment
photoHexPartWithFooter(data) == BufferToHex(data)

\* PersonalApplet.extractPhoto: the hex part pushed for one segment
photoHexPart(data) == SliceOff(BufferToHex(data), 4)

\* PersonalApplet.extractPhoto: the value built from the parts of all segments
extractPhoto(photoHexParts) == hex2imagebase64(Join(photoHexParts, <<>>))

\* what one personal field's extractor makes of the buffer getData returned
ExtractPersonalField(field, data) ==
    CASE field = "cid"        -> extractCitizenId(data)
      [] field = "name"       -> extractThaiName(data)
      [] field = "nameEn"     -> extractEnglishName(data)
      [] field = "dob"        -> extractDateOfBirth(data)
      [] field = "gender"     -> extractGender(data)
      [] field = "issuer"     -> extractIssuer(data)
      [] field = "issueDate"  -> extractIssueDate(data)
      [] field = "expireDate" -> extractExpireDate(data)
      [] field = "address"    -> extractAddress(data)

\* NhsoApplet.extractNhsoData: the decoding of one field's buffer
ExtractNhsoField(field, data) ==
    IF field \in {"mainInscl", "subInscl", "mainHospitalName", "subHospitalName"}
    THEN Trim(SliceOff(Tis620Decode(data), 2))
    ELSE IF field \in {"paidType", "changeHospitalAmount"}
    THEN BufferToHex(SliceOff(data, 2))
    ELSE convertBuddhistDate(Trim(BufferToString(SliceOff(data, 2))))

\* String.prototype.replace(/\0/g, '')
RECURSIVE RemoveNul(_)
RemoveNul(s) ==
    IF s = <<>> THEN <<>>
    ELSE IF Head(s) = 0 THEN RemoveNul(Tail(s))
    ELSE <<Head(s)>> \o RemoveNul(Tail(s))

\* a getLaser that keeps the null bytes of the response
LaserDecodeKeepsNul(data) == Trim(BufferToString(SliceOff(data, 2)))

\* getLaser: the decoding of the re-read's response
LaserDecode(data) == Trim(RemoveNul(BufferToString(SliceOff(data, 2))))

(***************************************************************************)
(* The protocol dialogue of a read cycle                                   *)
(***************************************************************************)
\* ThaiIdCardReader.determineRequestCommand
determineRequestCommand(atr) ==
    IF SliceTo(BufferToHex(atr), 8) = BufferToHex(<<\H3b, \H67>>)
    THEN <<\H00, \Hc0, \H00, \H01>>
    ELSE <<\H00, \Hc0, \H00, \H00>>

\* a getData whose second command repeats the first byte of the read command, not
\* its last
getDataSecondFirstByte(command, req) == req \o <<command[1]>>

\* getData: the command it issues first, and the one it issues after the answer
getDataFirst(command, req) == command
getDataSecond(command, req) == req \o SubSeq(command, Len(command), Len(command))

\* a getLaser whose re-read always uses the default prefix
getLaserSecondDefaultPrefix(req) == <<\H00, \Hc0, \H00, \H00>> \o LaserRereadLength

\* getLaser: its three commands
getLaserSelect(req) == LaserSelect
getLaserFirst(req) == LaserCommand
getLaserSecond(req) == req \o LaserRereadLength

\* PersonalApplet.initializeCard, NhsoApplet.initializeNhsoCard
initializeCard == apduPerson.SELECT \o apduPerson.THAI_CARD
initializeNhsoCard == apduNhso.SELECT

\* PersonalApplet.getInfo: the order in which it tests and extracts the fields
PersonalOrder ==
    << "cid", "name", "nameEn", "dob", "gender", "issuer", "issueDate", "expireDate",
       "address", "photo" >>

\* the read command of a personal field other than the photo
PersonalCommand(field) ==
    CASE field = "cid"        -> apduPerson.CMD_CID
      [] field = "name"       -> apduPerson.CMD_THFULLNAME
      [] field = "nameEn"     -> apduPerson.CMD_ENFULLNAME
      [] field = "dob"        -> apduPerson.CMD_BIRTH
      [] field = "gender"     -> apduPerson.CMD_GENDER
      [] field = "issuer"     -> apduPerson.CMD_ISSUER
      [] field = "issueDate"  -> apduPerson.CMD_ISSUE
      [] field = "expireDate" -> apduPerson.CMD_EXPIRE
      [] field = "address"    -> apduPerson.CMD_ADDRESS

\* PersonalApplet.createFieldLookup
createFieldLookup(queryFields) ==
    [f \in {PersonalOrder[i] : i \in 1..Len(PersonalOrder)} |->
        \E i \in 1..Len(queryFields) : queryFields[i] = f]

\* PersonalApplet.getInfo: the two-phase reads it performs for a field set, in order;
\* the photo is one read per segment
RECURSIVE PersonalReadsFrom(_, _)
PersonalReadsFrom(requestedFields, i) ==
    IF i > Len(PersonalOrder) THEN <<>>
    ELSE LET field == PersonalOrder[i]
             reads == IF ~requestedFields[field] THEN <<>>
                      ELSE IF field = "photo"
                      THEN [s \in 1..Len(PHOTO_COMMANDS) |->
                               [field |-> "photo", command |-> PHOTO_COMMANDS[s]]]
                      ELSE <<[field |-> field, command |-> PersonalCommand(field)]>>
         IN  reads \o PersonalReadsFrom(requestedFields, i + 1)

\* a getInfo that reads the fields in the order of its argument, one read for each
\* element
RECURSIVE PersonalReadsInArgumentOrder(_)
PersonalReadsInArgumentOrder(queryFields) ==
    IF queryFields = <<>> THEN <<>>
    ELSE LET field == Head(queryFields)
             reads == IF field \in {"nhso", "laserId"} THEN <<>>
                      ELSE IF field = "photo"
                      THEN [s \in 1..Len(PHOTO_COMMANDS) |->
                               [field |-> "photo", command |-> PHOTO_COMMANDS[s]]]
                      ELSE <<[field |-> field, command |-> PersonalCommand(field)]>>
         IN  reads \o PersonalReadsInArgumentOrder(Tail(queryFields))

PersonalReads(queryFields) == PersonalReadsFrom(createFieldLookup(queryFields), 1)

\* NhsoApplet.extractNhsoData: its reads, in order
NhsoReads ==
    << [field |-> "mainInscl",            command |-> apduNhso.CMD_MAIN_INSCL],
       [field |-> "subInscl",             command |-> apduNhso.CMD_SUB_INSCL],
       [field |-> "mainHospitalName",     command |-> apduNhso.CMD_MAIN_HOSPITAL_NAME],
       [field |-> "subHospitalName",      command |-> apduNhso.CMD_SUB_HOSPITAL_NAME],
       [field |-> "paidType",             command |-> apduNhso.CMD_PAID_TYPE],
       [field |-> "issueDate",            command |-> apduNhso.CMD_ISSUE_DATE],
       [field |-> "expireDate",           command |-> apduNhso.CMD_EXPIRE_DATE],
       [field |-> "updateDate",           command |-> apduNhso.CMD_UPDATE_DATE],
       [field |-> "changeHospitalAmount", command |-> apduNhso.CMD_CHANGE_HOSPITAL_AMOUNT] >>

\* ThaiIdCardReader.extractPersonalData: the fields it asks the personal applet for
personalFields == SelectSeq(ALL_FIELDS, LAMBDA field : field # "nhso" /\ field # "laserId")


(***************************************************************************)
(* The environment: devices, cards and what a card answers                 *)
(***************************************************************************)
\* the reader devices of the driver
Devices == {"d1", "d2"}

\* the read cycles followed at a time: one where insertions come one after the
\* other, two where an insertion comes while a read cycle is in flight
Slots == {1}
CycleSlots == {1, 2}

\* the reset responses of the cards: the bare 3B 67 pair, a full reset response
\* that begins with 3B 67, and one that begins otherwise
AtrSet ==
    { <<\H3b, \H67>>,
      <<\H3b, \H67, \H00, \H00>>,
      <<\H3b, \H79, \H18, \H00>> }

\* the status bytes that end a response carrying data
Footer == <<\H90, \H00>>

\* what a card answers to an applet selection and to the first command of a
\* two-phase read: status bytes saying that data is waiting
ProbeResponse == <<\H61, \H0a>>

\* date fields: "25680315", and "2568031" which is one digit short
DateResponses ==
    { <<50, 53, 54, 56, 48, 51, 49, 53>> \o Footer,
      <<50, 53, 54, 56, 48, 51, 49>> \o Footer }

\* free-text fields: "A#B"
TextResponse == <<65, 35, 66>> \o Footer

\* code fields (identifier, gender, payment type, change counter, laser id): "1"
CodeResponse == <<49>> \o Footer

\* the identifier block: "1", a null byte, "2", a space and a null byte of padding
LaserResponse == <<49, 0, 50, 32, 0>> \o Footer

\* one photo segment: two bytes of the image, different in every segment (the
\* offset bytes of the segment's command)
PhotoResponse(command) == <<command[3], command[4]>> \o Footer

DateFields == {"dob", "issueDate", "expireDate", "updateDate"}
TextFields ==
    {"name", "nameEn", "issuer", "address", "mainInscl", "subInscl", "mainHospitalName",
     "subHospitalName"}

\* the buffers a card may answer to the second command of a field's read
FieldResponses(field) ==
    IF field \in DateFields THEN DateResponses
    ELSE IF field \in TextFields THEN {TextResponse}
    ELSE {CodeResponse}

\* the buffers a card may answer to the second command of a read
ReadResponses(read) ==
    IF read.field = "photo" THEN {PhotoResponse(read.command)}
    ELSE FieldResponses(read.field)

(***************************************************************************)
(* Records and notifications                                               *)
(***************************************************************************)
\* an object without keys
EmptyObject == [f \in {} |-> <<>>]

\* obj with obj[key] = value
SetKey(obj, key, value) == (key :> value) @@ obj

\* ThaiIdCardData: the string fields by key, and the nhso record when the key is there
EmptyData == [fields |-> EmptyObject, nhso |-> <<>>]

\* the keys of a ThaiIdCardData
Keys(data) == DOMAIN data.fields \cup (IF data.nhso # <<>> THEN {"nhso"} ELSE {})

\* an outbound notification: its name, status, description, the read cycle that
\* emitted it (0 when none did), the card data it carries, and what a listener
\* that calls hasCardInserted() sees during it: every handler emits before it
\* assigns cardInserted
Event(kind, status, description, slot, data) ==
    [kind |-> kind, status |-> status, description |-> description, slot |-> slot,
     data |-> data, seen |-> cardInserted]

\* the argument of PersonalApplet.getInfo: a field array, or nothing
Fields(queryFields) == [given |-> TRUE, fields |-> queryFields]
NoFields == [given |-> FALSE, fields |-> <<>>]

\* a read cycle that has not started; caller is who awaits the personal applet: the
\* reader's extractPersonalData, or a direct caller of PersonalApplet.getInfo
IdleCycle ==
    [ st |-> "idle", dev |-> "", atr |-> <<>>, requestCommand |-> <<>>,
      caller |-> "reader", args |-> NoFields, queryFields |-> <<>>, phase |-> "", k |-> 0, part |-> 0,
      issued |-> <<>>, answers |-> <<>>, buffer |-> <<>>,
      extractedData |-> EmptyObject, photoHexParts |-> <<>>,
      nhsoData |-> EmptyObject, nhsoSelected |-> FALSE, nhsoFailedAt |-> "",
      data |-> EmptyData, inserted |-> 0, cardData |-> 0, cardError |-> 0 ]

\* card.issueCommand: the command goes out and the cycle waits for its answer; the
\* log keeps, with the bytes, the phase, the read and the part that issued them
issueCommand(cy, phase, k, part, command) ==
    [cy EXCEPT !.phase = phase, !.k = k, !.part = part,
               !.issued = Append(@, [phase |-> phase, k |-> k, part |-> part,
                                     command |-> command])]

\* the answer to a command: a response buffer, or a failure
Answer(ok, data) == [ok |-> ok, data |-> data]

\* the outcome of a continuation: the cycle, the notifications emitted, process.exit
Outcome(cy, emit, exit) == [cy |-> cy, emit |-> emit, exit |-> exit]


(***************************************************************************)
(* The read cycle: what runs between two awaits                            *)
(***************************************************************************)
\* a processCardData whose emission of 'card-data' throws into its own catch, which
\* reports the failure of the cycle too
processCardDataDoneThenFailed(cy, slot) ==
    Outcome([cy EXCEPT !.st = "done", !.cardData = @ + 1, !.cardError = @ + 1],
            <<Event("card-data", STATUS.SUCCESS, "Data Read Successfully", slot, cy.data),
              Event("card-error", STATUS.ERROR, "Card Read Error", slot, EmptyData)>>,
            FALSE)

\* ThaiIdCardReader.processCardData: extractCardData has returned
processCardDataDone(cy, slot) ==
    Outcome([cy EXCEPT !.st = "done", !.cardData = @ + 1],
            <<Event("card-data", STATUS.SUCCESS, "Data Read Successfully", slot, cy.data)>>,
            FALSE)

\* a handleReadError that never ends the process
handleReadErrorNoExit(cy, slot) ==
    Outcome([cy EXCEPT !.st = "done", !.cardError = @ + 1],
            <<Event("card-error", STATUS.ERROR, "Card Read Error", slot, EmptyData)>>,
            FALSE)

\* ThaiIdCardReader.handleReadError
handleReadError(cy, slot) ==
    Outcome([cy EXCEPT !.st = "done", !.cardError = @ + 1],
            <<Event("card-error", STATUS.ERROR, "Card Read Error", slot, EmptyData)>>,
            options.exitOnReadError)

\* ThaiIdCardReader.processCardData: extractCardData has thrown
processCardDataFailed(cy, slot) == handleReadError(cy, slot)

\* ThaiIdCardReader.extractLaserData: getLaser has returned laserId
extractLaserDataDone(cy, slot, laserId) ==
    processCardDataDone([cy EXCEPT !.data.fields = SetKey(@, "laserId", laserId)], slot)

\* an extractLaserData that lets the failure of getLaser through
extractLaserDataRethrown(cy, slot) == handleReadError(cy, slot)

\* ThaiIdCardReader.extractLaserData: getLaser has thrown
extractLaserDataFailed(cy, slot) ==
    processCardDataDone([cy EXCEPT !.data.fields = SetKey(@, "laserId", <<>>)], slot)

\* a getLaser that issues its read command without awaiting the answer to its SELECT
extractLaserDataPipelined(cy) ==
    Outcome(issueCommand(issueCommand(cy, "laser", 0, 1, getLaserSelect(cy.requestCommand)),
                         "laser", 1, 1, getLaserFirst(cy.requestCommand)), <<>>, FALSE)

\* ThaiIdCardReader.extractLaserData: the call of getLaser, up to its first await
extractLaserData(cy) ==
    Outcome(issueCommand(cy, "laser", 0, 1, getLaserSelect(cy.requestCommand)), <<>>, FALSE)

\* getLaser: a command of it has been answered
getLaserAnswered(cy, slot, data) ==
    IF cy.k = 0
    THEN Outcome(issueCommand(cy, "laser", 1, 1, getLaserFirst(cy.requestCommand)),
                 <<>>, FALSE)
    ELSE IF cy.part = 1
    THEN Outcome(issueCommand([cy EXCEPT !.buffer = data], "laser", 1, 2,
                              getLaserSecond(cy.requestCommand)), <<>>, FALSE)
    ELSE extractLaserDataDone([cy EXCEPT !.buffer = data], slot, LaserDecode(data))

\* an extractHealthData that leaves the insurance key out when the record getInfo
\* has returned is empty
extractHealthDataOmitsEmpty(cy) ==
    IF cy.nhsoData = EmptyObject THEN extractLaserData(cy)
    ELSE extractLaserData([cy EXCEPT !.data.nhso = <<cy.nhsoData>>])

\* ThaiIdCardReader.extractHealthData: NhsoApplet.getInfo has returned nhsoData
extractHealthDataDone(cy) == extractLaserData([cy EXCEPT !.data.nhso = <<cy.nhsoData>>])

\* an extractHealthData that puts an empty insurance record when getInfo has thrown
extractHealthDataEmptyRecord(cy) == extractLaserData([cy EXCEPT !.data.nhso = <<EmptyObject>>])

\* ThaiIdCardReader.extractHealthData: NhsoApplet.getInfo has thrown
extractHealthDataFailed(cy) == extractLaserData(cy)

\* ThaiIdCardReader.extractHealthData: the call of NhsoApplet.getInfo, up to its
\* first await
extractHealthData(cy) ==
    Outcome(issueCommand([cy EXCEPT !.nhsoData = EmptyObject], "nhso", 0, 1,
                         initializeNhsoCard), <<>>, FALSE)

\* NhsoApplet.extractNhsoData: a command of a field's read has failed
extractNhsoDataCatch(cy) ==
    extractHealthDataDone([cy EXCEPT !.nhsoFailedAt = NhsoReads[cy.k].field])

\* NhsoApplet.extractNhsoData: the read of field k has returned data
extractNhsoDataField(cy, data) ==
    LET field == NhsoReads[cy.k].field
        next  == [cy EXCEPT !.buffer = data,
                            !.nhsoData = SetKey(@, field, ExtractNhsoField(field, data))]
    IN  IF cy.k < Len(NhsoReads)
        THEN Outcome(issueCommand(next, "nhso", cy.k + 1, 1,
                       getDataFirst(NhsoReads[cy.k + 1].command, cy.requestCommand)),
                     <<>>, FALSE)
        ELSE extractHealthDataDone(next)

\* NhsoApplet.getInfo: a command of it has been answered
nhsoAnswered(cy, data) ==
    IF cy.k = 0
    THEN Outcome(issueCommand([cy EXCEPT !.nhsoSelected = TRUE], "nhso", 1, 1,
                              getDataFirst(NhsoReads[1].command, cy.requestCommand)),
                 <<>>, FALSE)
    ELSE IF cy.part = 1
    THEN Outcome(issueCommand([cy EXCEPT !.buffer = data], "nhso", cy.k, 2,
                              getDataSecond(NhsoReads[cy.k].command, cy.requestCommand)),
                 <<>>, FALSE)
    ELSE extractNhsoDataField(cy, data)

\* NhsoApplet.getInfo: a command of it has failed
nhsoFailed(cy) ==
    IF cy.k = 0 THEN extractHealthDataFailed(cy) ELSE extractNhsoDataCatch(cy)

\* an extractPersonalData after which the identifier read comes at once
extractPersonalDataSkipsHealth(cy) ==
    extractLaserData([cy EXCEPT !.data.fields = cy.extractedData @@ @])

\* an extractPersonalData that goes on with the insurance phase when getInfo has
\* thrown
extractPersonalDataSwallowed(cy, slot) == extractHealthData(cy)

\* ThaiIdCardReader.extractPersonalData: PersonalApplet.getInfo has returned
extractPersonalDataDone(cy) ==
    extractHealthData([cy EXCEPT !.data.fields = cy.extractedData @@ @])

\* ThaiIdCardReader.extractPersonalData: PersonalApplet.getInfo has thrown
extractPersonalDataFailed(cy, slot) == processCardDataFailed(cy, slot)

\* PersonalApplet.getInfo has returned extractedData to a direct caller
getInfoResolved(cy) == Outcome([cy EXCEPT !.st = "resolved"], <<>>, FALSE)

\* PersonalApplet.getInfo has thrown to a direct caller
getInfoRejected(cy) == Outcome([cy EXCEPT !.st = "rejected"], <<>>, FALSE)

\* PersonalApplet.getInfo returns to its caller
getInfoReturn(cy) ==
    IF cy.caller = "reader" THEN extractPersonalDataDone(cy) ELSE getInfoResolved(cy)

\* PersonalApplet.getInfo throws to its caller
getInfoThrow(cy, slot) ==
    IF cy.caller = "reader" THEN extractPersonalDataFailed(cy, slot) ELSE getInfoRejected(cy)

\* PersonalApplet.getInfo: go on with read k of the requested fields, or return
getInfoNext(cy, k) ==
    LET reads == PersonalReads(cy.queryFields)
    IN  IF k <= Len(reads)
        THEN Outcome(issueCommand(cy, "personal", k, 1,
                                  getDataFirst(reads[k].command, cy.requestCommand)),
                     <<>>, FALSE)
        ELSE getInfoReturn(cy)

\* PersonalApplet.getInfo: the read k has returned data
getInfoField(cy, slot, data) ==
    LET reads == PersonalReads(cy.queryFields)
        field == reads[cy.k].field
        parts == Append(cy.photoHexParts, photoHexPart(data))
        last  == cy.k = Len(reads) \/ reads[cy.k + 1].field # "photo"
        value == ExtractPersonalField(field, data)
    IN  IF field = "photo"
        THEN IF last
             THEN getInfoNext([cy EXCEPT !.buffer = data, !.photoHexParts = parts,
                                 !.extractedData = SetKey(@, "photo", extractPhoto(parts))],
                              cy.k + 1)
             ELSE getInfoNext([cy EXCEPT !.buffer = data, !.photoHexParts = parts], cy.k + 1)
        ELSE IF value.ok
        THEN getInfoNext([cy EXCEPT !.buffer = data,
                                    !.extractedData = SetKey(@, field, value.val)],
                         cy.k + 1)
        ELSE getInfoThrow([cy EXCEPT !.buffer = data], slot)

\* PersonalApplet.getInfo: a command of it has been answered
personalAnswered(cy, slot, data) ==
    IF cy.k = 0 THEN getInfoNext(cy, 1)
    ELSE IF cy.part = 1
    THEN Outcome(issueCommand([cy EXCEPT !.buffer = data], "personal", cy.k, 2,
                   getDataSecond(PersonalReads(cy.queryFields)[cy.k].command,
                                 cy.requestCommand)),
                 <<>>, FALSE)
    ELSE getInfoField(cy, slot, data)

\* PersonalApplet.getInfo: a command of it has failed
\* a personal applet that issues a failed command a second time before it gives up
personalFailedRetried(cy, slot) ==
    LET n == Len(cy.issued)
    IN  IF n > 1 /\ cy.issued[n - 1] = cy.issued[n]
        THEN getInfoThrow(cy, slot)
        ELSE Outcome(issueCommand(cy, cy.phase, cy.k, cy.part, cy.issued[n].command),
                     <<>>, FALSE)

personalFailed(cy, slot) == getInfoThrow(cy, slot)

\* a getInfo whose field set is every personal field when none is given
getInfoDefaultAll(cy, args) ==
    Outcome(issueCommand([cy EXCEPT !.args = args,
                                    !.queryFields = IF args.given THEN args.fields
                                                    ELSE PersonalOrder,
                                    !.extractedData = EmptyObject,
                                    !.photoHexParts = <<>>],
                         "personal", 0, 1, initializeCard), <<>>, FALSE)

\* PersonalApplet.getInfo(queryFields = ['cid']): up to its first await
getInfo(cy, args) ==
    Outcome(issueCommand([cy EXCEPT !.args = args,
                                    !.queryFields = IF args.given THEN args.fields
                                                    ELSE <<"cid">>,
                                    !.extractedData = EmptyObject,
                                    !.photoHexParts = <<>>],
                         "personal", 0, 1, initializeCard), <<>>, FALSE)

\* ThaiIdCardReader.extractPersonalData: the call of PersonalApplet.getInfo, up to
\* its first await
extractPersonalData(cy) ==
    IF Len(personalFields) > 0
    THEN getInfo(cy, Fields(personalFields))
    ELSE extractHealthData(cy)

\* ThaiIdCardReader.extractCardData: up to its first await
extractCardData(dev, atr) ==
    extractPersonalData([IdleCycle EXCEPT !.st = "busy", !.dev = dev, !.atr = atr,
                            !.requestCommand = determineRequestCommand(atr),
                            !.data = EmptyData, !.inserted = 1])

\* the continuation of a read cycle after the answer to its outstanding command
Answered(cy, slot, data) ==
    CASE cy.phase = "personal" -> personalAnswered(cy, slot, data)
      [] cy.phase = "nhso"     -> nhsoAnswered(cy, data)
      [] cy.phase = "laser"    -> getLaserAnswered(cy, slot, data)

\* the continuation of a read cycle after the failure of its outstanding command
Failed(cy, slot) ==
    CASE cy.phase = "personal" -> personalFailed(cy, slot)
      [] cy.phase = "nhso"     -> nhsoFailed(cy)
      [] cy.phase = "laser"    -> extractLaserDataFailed(cy, slot)

\* what the card may answer to the outstanding command of a cycle
Responses(cy) ==
    IF cy.k = 0 \/ cy.part = 1 THEN {ProbeResponse}
    ELSE IF cy.phase = "personal" THEN ReadResponses(PersonalReads(cy.queryFields)[cy.k])
    ELSE IF cy.phase = "nhso" THEN ReadResponses(NhsoReads[cy.k])
    ELSE {LaserResponse}


(***************************************************************************)
(* The reader: its public methods and its handlers of driver notifications *)
(***************************************************************************)
\* no call of a pure function is under way
NoCall == [fn |-> "", arg |-> <<>>, res |-> Value(<<>>)]

\* ThaiIdCardReader.validateAndSetOptions; the option is true, false or left out
validateAndSetOptions(exitOnReadError) ==
    [exitOnReadError |-> IF exitOnReadError = "undefined" THEN TRUE
                         ELSE exitOnReadError = "true"]

\* the constructor
Init ==
    /\ isInitialized = FALSE
    /\ cardInserted = FALSE
    /\ devices = FALSE
    /\ options \in {validateAndSetOptions(o) : o \in {"undefined", "true", "false"}}
    /\ listeners = FALSE
    /\ cardsIn = {}
    /\ registered = {}
    /\ exited = FALSE
    /\ cycle = [slot \in Slots |-> IdleCycle]
    /\ emitted = <<>>
    /\ call = NoCall

\* EventEmitter.on: the application puts a listener on the reader
on ==
    /\ ~exited
    /\ listeners' = TRUE
    /\ emitted' = <<>>
    /\ UNCHANGED <<isInitialized, cardInserted, devices, options, cardsIn, registered, exited,
                   cycle, call>>

\* ThaiIdCardReader.init: it throws, changing nothing, when already initialized
init ==
    /\ ~exited
    /\ IF isInitialized
       THEN UNCHANGED <<devices, isInitialized>>
       ELSE devices' = TRUE /\ isInitialized' = TRUE
    /\ emitted' = <<>>
    /\ UNCHANGED <<cardInserted, options, cardsIn, listeners, registered, exited, cycle, call>>

\* a destroy that leaves the listeners of the application on the reader
destroyKeepsListeners ==
    /\ ~exited
    /\ devices' = FALSE
    /\ isInitialized' = FALSE
    /\ cardInserted' = FALSE
    /\ emitted' = <<>>
    /\ UNCHANGED <<options, cardsIn, listeners, registered, exited, cycle, call>>

\* ThaiIdCardReader.destroy: cleanup and resetState
destroy ==
    /\ ~exited
    /\ devices' = FALSE
    /\ isInitialized' = FALSE
    /\ cardInserted' = FALSE
    /\ emitted' = <<>>
    /\ listeners' = FALSE
    /\ UNCHANGED <<options, cardsIn, registered, exited, cycle, call>>

\* ThaiIdCardReader.handleDeviceConnected, for a device the driver activates
handleDeviceConnected(device) ==
    /\ ~exited
    /\ devices
    /\ device \notin registered
    /\ emitted' = <<Event("device-connected", STATUS.DEVICE_ACTIVATED, "Device Activated",
                          0, EmptyData)>>
    /\ registered' = registered \cup {device}
    /\ UNCHANGED <<isInitialized, cardInserted, devices, options, cardsIn, listeners, exited, cycle, call>>

\* a handleDeviceDisconnected that leaves cardInserted as it is
handleDeviceDisconnectedKeepsCard(device) ==
    /\ ~exited
    /\ devices
    /\ device \in registered
    /\ emitted' = <<Event("device-disconnected", STATUS.DEVICE_NOT_FOUND,
                          "Device Deactivated", 0, EmptyData)>>
    /\ registered' = registered \ {device}
    /\ UNCHANGED <<isInitialized, cardInserted, devices, options, cardsIn, listeners, exited, cycle,
                   call>>

\* ThaiIdCardReader.handleDeviceDisconnected, for a device the driver deactivates
handleDeviceDisconnected(device) ==
    /\ ~exited
    /\ devices
    /\ device \in registered
    /\ emitted' = <<Event("device-disconnected", STATUS.DEVICE_NOT_FOUND,
                          "Device Deactivated", 0, EmptyData)>>
    /\ cardInserted' = FALSE
    /\ registered' = registered \ {device}
    /\ UNCHANGED <<isInitialized, devices, options, cardsIn, listeners, exited, cycle, call>>

\* a handleDeviceError that reports the status of a missing device
handleDeviceErrorNotFound ==
    /\ ~exited
    /\ devices
    /\ emitted' = <<Event("card-error", STATUS.DEVICE_NOT_FOUND, "Device Error", 0,
                          EmptyData)>>
    /\ UNCHANGED <<isInitialized, cardInserted, devices, options, cardsIn, listeners, registered,
                   exited, cycle, call>>

\* ThaiIdCardReader.handleDeviceError
handleDeviceError ==
    /\ ~exited
    /\ devices
    /\ emitted' = <<Event("card-error", STATUS.ERROR, "Device Error", 0, EmptyData)>>
    /\ UNCHANGED <<isInitialized, cardInserted, devices, options, cardsIn, listeners, registered, exited,
                   cycle, call>>

\* a handleCardInserted that sets cardInserted before it emits 'card-inserted'
handleCardInsertedFlagFirst(slot, device, atr) ==
    /\ ~exited
    /\ device \in registered
    /\ cycle[slot].st # "busy"
    /\ LET insertedEvent == Event("card-inserted", STATUS.CARD_INSERTED, "Card Inserted",
                                  slot, EmptyData)
           started       == extractCardData(device, atr)
       IN  /\ emitted' = <<[insertedEvent EXCEPT !.seen = TRUE]>> \o started.emit
           /\ cardInserted' = TRUE
           /\ cycle' = [cycle EXCEPT ![slot] = started.cy]
    /\ cardsIn' = cardsIn \cup {device}
    /\ UNCHANGED <<isInitialized, devices, options, listeners, registered, exited, call>>

\* ThaiIdCardReader.handleCardInserted, up to the first await of the read cycle
handleCardInserted(slot, device, atr) ==
    /\ ~exited
    /\ device \in registered
    /\ cycle[slot].st # "busy"
    /\ LET insertedEvent == Event("card-inserted", STATUS.CARD_INSERTED, "Card Inserted",
                                  slot, EmptyData)
           started       == extractCardData(device, atr)
       IN  /\ emitted' = <<insertedEvent>> \o started.emit
           /\ cardInserted' = TRUE
           /\ cycle' = [cycle EXCEPT ![slot] = started.cy]
    /\ cardsIn' = cardsIn \cup {device}
    /\ UNCHANGED <<isInitialized, devices, options, listeners, registered, exited, call>>

\* a handleCardInserted that sets cardInserted before it asks for the reset response
handleCardInsertedThrownLate(device) ==
    /\ ~exited
    /\ device \in registered
    /\ emitted' = <<>>
    /\ cardInserted' = TRUE
    /\ UNCHANGED <<isInitialized, devices, options, cardsIn, listeners, registered, exited, cycle,
                   call>>

\* ThaiIdCardReader.handleCardInserted when card.getAtr() throws: the handler ends
\* at its first statement
handleCardInsertedThrown(device) ==
    /\ ~exited
    /\ device \in registered
    /\ emitted' = <<>>
    /\ UNCHANGED <<isInitialized, cardInserted, devices, options, cardsIn, listeners, registered,
                   exited, cycle, call>>

\* a handleCardRemoved without the test of cardInserted
handleCardRemovedAlways(device) ==
    /\ ~exited
    /\ device \in registered
    /\ emitted' = <<Event("card-removed", STATUS.CARD_REMOVED, "Card Removed", 0, EmptyData)>>
    /\ cardInserted' = FALSE
    /\ cardsIn' = cardsIn \ {device}
    /\ UNCHANGED <<isInitialized, devices, options, listeners, registered, exited, cycle, call>>

\* ThaiIdCardReader.handleCardRemoved
handleCardRemoved(device) ==
    /\ ~exited
    /\ device \in registered
    /\ IF cardInserted
       THEN /\ emitted' = <<Event("card-removed", STATUS.CARD_REMOVED, "Card Removed",
                                  0, EmptyData)>>
            /\ cardInserted' = FALSE
       ELSE /\ emitted' = <<>>
            /\ UNCHANGED cardInserted
    /\ cardsIn' = cardsIn \ {device}
    /\ UNCHANGED <<isInitialized, devices, options, listeners, registered, exited, cycle, call>>

\* a handleCardError that takes the card for removed
handleCardErrorClearsCard(device) ==
    /\ ~exited
    /\ device \in registered
    /\ emitted' = <<Event("card-incorrect", STATUS.INCORRECT_CARD, "Incorrect Card Type",
                          0, EmptyData)>>
    /\ cardInserted' = FALSE
    /\ UNCHANGED <<isInitialized, devices, options, cardsIn, listeners, registered, exited, cycle,
                   call>>

\* ThaiIdCardReader.handleCardError
handleCardError(device) ==
    /\ ~exited
    /\ device \in registered
    /\ emitted' = <<Event("card-incorrect", STATUS.INCORRECT_CARD, "Incorrect Card Type",
                          0, EmptyData)>>
    /\ UNCHANGED <<isInitialized, cardInserted, devices, options, cardsIn, listeners, registered, exited,
                   cycle, call>>

\* a continuation that takes the card for removed when the read cycle fails
ResumeCardGone(slot, outcome) ==
    /\ cycle' = [cycle EXCEPT ![slot] = outcome.cy]
    /\ emitted' = outcome.emit
    /\ exited' = outcome.exit
    /\ cardInserted' = (cardInserted /\ outcome.cy.cardError = cycle[slot].cardError)
    /\ UNCHANGED <<isInitialized, devices, options, cardsIn, listeners, registered, call>>

\* the effect of a continuation of the read cycle in a slot
Resume(slot, outcome) ==
    /\ cycle' = [cycle EXCEPT ![slot] = outcome.cy]
    /\ emitted' = outcome.emit
    /\ exited' = outcome.exit
    /\ UNCHANGED <<isInitialized, cardInserted, devices, options, cardsIn, listeners, registered, call>>

\* the card answers the outstanding command of a read cycle, which goes on
CommandAnswered(slot) ==
    /\ ~exited
    /\ cycle[slot].st = "busy"
    /\ \E data \in Responses(cycle[slot]) :
          Resume(slot, Answered([cycle[slot] EXCEPT !.answers = Append(@, Answer(TRUE, data))],
                                slot, data))

\* the outstanding command of a read cycle fails, and the cycle goes on
CommandFailed(slot) ==
    /\ ~exited
    /\ cycle[slot].st = "busy"
    /\ Resume(slot, Failed([cycle[slot] EXCEPT !.answers = Append(@, Answer(FALSE, <<>>))],
                              slot))

\* the steps of a reader whose driver has the devices devs
NextOn(devs) ==
    \/ init
    \/ destroy
    \/ \E device \in devs : handleDeviceConnected(device)
    \/ \E device \in devs : handleDeviceDisconnected(device)
    \/ handleDeviceError
    \/ \E slot \in DOMAIN cycle, device \in devs, atr \in AtrSet :
          handleCardInserted(slot, device, atr)
    \/ \E device \in devs : handleCardInsertedThrown(device)
    \/ \E device \in devs : handleCardRemoved(device)
    \/ \E device \in devs : handleCardError(device)
    \/ \E slot \in DOMAIN cycle : CommandAnswered(slot)
    \/ \E slot \in DOMAIN cycle : CommandFailed(slot)

\* a reader with one device
Next == NextOn({"d1"})

Spec == Init /\ [][Next]_vars

\* a reader with one device, every command of whose cards is answered or fails in
\* the end, as long as the process runs
SpecLive ==
    Init /\ [][Next]_vars
         /\ \A slot \in Slots : WF_vars(CommandFailed(slot) \/ CommandAnswered(slot))

\* the commands a card answers in one read cycle before it is pulled out
MaxAnswers == 3

\* a reader with every device of the driver, whose cards answer MaxAnswers commands
\* of a read cycle at most
NextDevices ==
    \/ init
    \/ destroy
    \/ \E device \in Devices : handleDeviceConnected(device)
    \/ \E device \in Devices : handleDeviceDisconnected(device)
    \/ handleDeviceError
    \/ \E slot \in DOMAIN cycle, device \in Devices, atr \in AtrSet :
          handleCardInserted(slot, device, atr)
    \/ \E device \in Devices : handleCardInsertedThrown(device)
    \/ \E device \in Devices : handleCardRemoved(device)
    \/ \E device \in Devices : handleCardError(device)
    \/ \E slot \in DOMAIN cycle :
          Len(cycle[slot].answers) < MaxAnswers /\ CommandAnswered(slot)
    \/ \E slot \in DOMAIN cycle : CommandFailed(slot)

SpecDevices == Init /\ [][NextDevices]_vars

\* the constructor, for a reader followed through two read cycles at a time
InitCycles ==
    /\ isInitialized = FALSE
    /\ cardInserted = FALSE
    /\ devices = FALSE
    /\ options \in {validateAndSetOptions(o) : o \in {"undefined", "true", "false"}}
    /\ listeners = FALSE
    /\ cardsIn = {}
    /\ registered = {}
    /\ exited = FALSE
    /\ cycle = [slot \in CycleSlots |-> IdleCycle]
    /\ emitted = <<>>
    /\ call = NoCall

\* the steps of a reader with one device whose card answers MaxAnswers commands of
\* a read cycle at most
NextCycles ==
    \/ on
    \/ init
    \/ destroy
    \/ handleDeviceConnected("d1")
    \/ handleDeviceDisconnected("d1")
    \/ handleDeviceError
    \/ \E slot \in DOMAIN cycle, atr \in AtrSet : handleCardInserted(slot, "d1", atr)
    \/ handleCardInsertedThrown("d1")
    \/ handleCardRemoved("d1")
    \/ handleCardError("d1")
    \/ \E slot \in DOMAIN cycle :
          Len(cycle[slot].answers) < MaxAnswers /\ CommandAnswered(slot)
    \/ \E slot \in DOMAIN cycle : CommandFailed(slot)

SpecCycles == InitCycles /\ [][NextCycles]_vars


(***************************************************************************)
(* The personal applet on its own: PersonalApplet.getInfo is called once, by *)
(* a caller other than the reader, on a card that answers or fails           *)
(***************************************************************************)
\* a sequence in the opposite order
Reverse(seq) == [i \in 1..Len(seq) |-> seq[Len(seq) + 1 - i]]

\* the arguments tried: none, [], one field, fields out of order, the fields of the
\* other readers alone, a field twice, and every field of the reader in the
\* opposite order
QueryInputs ==
    { NoFields,
      Fields(<<>>),
      Fields(<<"cid">>),
      Fields(<<"photo", "cid">>),
      Fields(<<"nhso", "laserId">>),
      Fields(<<"address", "dob", "name">>),
      Fields(<<"gender", "nhso", "gender">>),
      Fields(Reverse(ALL_FIELDS)) }

\* the request prefixes an applet is constructed with: the default of the
\* constructor's parameter, and the alternate one
RequestCommands == { <<\H00, \Hc0, \H00, \H00>>, <<\H00, \Hc0, \H00, \H01>> }

\* new PersonalApplet(card, requestCommand).getInfo(queryFields), up to its first
\* await
CallGetInfo(slot) ==
    /\ ~exited
    /\ cycle[slot].st = "idle"
    /\ \E args \in QueryInputs, req \in RequestCommands :
          Resume(slot, getInfo([IdleCycle EXCEPT !.st = "busy", !.caller = "applet",
                                                 !.requestCommand = req], args))

NextApplet ==
    \/ \E slot \in DOMAIN cycle : CallGetInfo(slot)
    \/ \E slot \in DOMAIN cycle : CommandAnswered(slot)
    \/ \E slot \in DOMAIN cycle : CommandFailed(slot)

\* no reader is in use, and no call of the applet has been made
InitApplet ==
    /\ isInitialized = FALSE
    /\ cardInserted = FALSE
    /\ devices = FALSE
    /\ options = validateAndSetOptions("undefined")
    /\ listeners = FALSE
    /\ cardsIn = {}
    /\ registered = {}
    /\ exited = FALSE
    /\ cycle = [slot \in Slots |-> IdleCycle]
    /\ emitted = <<>>
    /\ call = NoCall

SpecApplet == InitApplet /\ [][NextApplet]_vars

(***************************************************************************)
(* The date converters on their own: each is called once on a date string  *)
(***************************************************************************)
\* a year as the four digits a card stores
Pad4(n) ==
    <<48 + (n \div 1000), 48 + ((n \div 100) % 10), 48 + ((n \div 10) % 10), 48 + (n % 10)>>

\* the local-calendar years tried: the ends of the range, the years around the
\* changes of sign and of length of the converted year, and the years of living cards
DateYears == {0, 1, 542, 543, 544, 999, 1000, 1542, 1543, 9999} \cup (2540..2580)

\* the month and day digits tried: "0315", "1231", "0000"
DateMonthDays == { <<48, 51, 49, 53>>, <<49, 50, 51, 49>>, <<48, 48, 48, 48>> }

\* date strings of 8 digits, and strings of other lengths: "", "2568031", "256803150"
DateInputs ==
    {Pad4(y) \o md : y \in DateYears, md \in DateMonthDays}
        \cup { <<>>, <<50, 53, 54, 56, 48, 51, 49>>, <<50, 53, 54, 56, 48, 51, 49, 53, 48>> }

InitDate ==
    /\ isInitialized = FALSE
    /\ cardInserted = FALSE
    /\ devices = FALSE
    /\ options = validateAndSetOptions("undefined")
    /\ listeners = FALSE
    /\ cardsIn = {}
    /\ registered = {}
    /\ exited = FALSE
    /\ cycle = [slot \in Slots |-> IdleCycle]
    /\ emitted = <<>>
    /\ call \in {[NoCall EXCEPT !.arg = d] : d \in DateInputs}

\* a call of PersonalApplet.convertBuddhistToGregorianDate
CallConvertBuddhistToGregorianDate ==
    /\ call.fn = ""
    /\ call' = [call EXCEPT !.fn = "convertBuddhistToGregorianDate",
                            !.res = convertBuddhistToGregorianDate(call.arg)]
    /\ UNCHANGED sessionVars

\* a call of NhsoApplet.convertBuddhistDate
CallConvertBuddhistDate ==
    /\ call.fn = ""
    /\ call' = [call EXCEPT !.fn = "convertBuddhistDate",
                            !.res = Value(convertBuddhistDate(call.arg))]
    /\ UNCHANGED sessionVars

NextDate == CallConvertBuddhistToGregorianDate \/ CallConvertBuddhistDate

SpecDate == InitDate /\ [][NextDate]_vars

(***************************************************************************)
(* The text decoders on their own: each is called once on the response that *)
(* carries a text                                                           *)
(***************************************************************************)
\* the longest text tried in full
MaxTextLen == 5

\* the characters of the texts tried: 'A', 'B', '#' and the space
TextAlphabet == {65, 66, 35, 32}

\* every text of at most MaxTextLen characters, and longer ones with an empty last
\* token, with more than four tokens and with tokens of spaces: "A#B#C#",
\* "A#B#C#D#E", " A # B ", "A# #B#", "A#B##A#B#A"
TextInputs ==
    UNION {[1..n -> TextAlphabet] : n \in 0..MaxTextLen}
        \cup { <<65, 35, 66, 35, 67, 35>>,
               <<65, 35, 66, 35, 67, 35, 68, 35, 69>>,
               <<32, 65, 32, 35, 32, 66, 32>>,
               <<65, 35, 32, 35, 66, 35>>,
               <<65, 35, 66, 35, 35, 65, 35, 66, 35, 65>> }

InitText ==
    /\ isInitialized = FALSE
    /\ cardInserted = FALSE
    /\ devices = FALSE
    /\ options = validateAndSetOptions("undefined")
    /\ listeners = FALSE
    /\ cardsIn = {}
    /\ registered = {}
    /\ exited = FALSE
    /\ cycle = [slot \in Slots |-> IdleCycle]
    /\ emitted = <<>>
    /\ call \in {[NoCall EXCEPT !.arg = d] : d \in TextInputs}

\* PersonalApplet.extractThaiName on the response that carries the text
CallExtractThaiName ==
    /\ call.fn = ""
    /\ call' = [call EXCEPT !.fn = "extractThaiName",
                            !.res = extractThaiName(call.arg \o Footer)]
    /\ UNCHANGED sessionVars

\* PersonalApplet.extractAddress on the response that carries the text
CallExtractAddress ==
    /\ call.fn = ""
    /\ call' = [call EXCEPT !.fn = "extractAddress",
                            !.res = extractAddress(call.arg \o Footer)]
    /\ UNCHANGED sessionVars

NextText == CallExtractThaiName \/ CallExtractAddress

SpecText == InitText /\ [][NextText]_vars

(***************************************************************************)
(* The field decoders on their own: each decodes once two responses that    *)
(* differ in their status bytes only                                        *)
(***************************************************************************)
\* the bodies of the responses tried: nothing, "1", " A#B ", two Thai letters,
\* "25680315", "2568031 " and the padded identifier block
FooterBodies ==
    { <<>>, <<49>>, <<32, 65, 35, 66, 32>>, <<\Ha1, \Ha2>>,
      <<50, 53, 54, 56, 48, 51, 49, 53>>, <<50, 53, 54, 56, 48, 51, 49, 32>>,
      <<49, 0, 50, 32, 0>> }

\* the status bytes tried: 90 00, 61 0A, two spaces, "#A", a Thai letter and FF,
\* and the digits "35"
Footers ==
    { <<\H90, \H00>>, <<\H61, \H0a>>, <<32, 32>>, <<35, 65>>, <<\Ha1, \Hff>>, <<51, 53>> }

\* the field reads: by reader, the fields whose response is decoded
FieldReads ==
    {[reader |-> "personal", field |-> PersonalOrder[i]] : i \in 1..Len(PersonalOrder)}
       \cup {[reader |-> "nhso", field |-> NhsoReads[i].field] : i \in 1..Len(NhsoReads)}
       \cup {[reader |-> "laser", field |-> "laserId"]}

\* what a field read makes of the response of its re-read (of one segment, for the
\* photo)
DecodeField(read, data) ==
    IF read.reader = "laser" THEN Value(LaserDecode(data))
    ELSE IF read.reader = "nhso" THEN Value(ExtractNhsoField(read.field, data))
    ELSE IF read.field = "photo" THEN Value(photoHexPart(data))
    ELSE ExtractPersonalField(read.field, data)

InitFooter ==
    /\ isInitialized = FALSE
    /\ cardInserted = FALSE
    /\ devices = FALSE
    /\ options = validateAndSetOptions("undefined")
    /\ listeners = FALSE
    /\ cardsIn = {}
    /\ registered = {}
    /\ exited = FALSE
    /\ cycle = [slot \in Slots |-> IdleCycle]
    /\ emitted = <<>>
    /\ call \in {[NoCall EXCEPT !.arg = [read |-> r, body |-> b, footers |-> <<f, g>>]] :
                    r \in FieldReads, b \in FooterBodies, f \in Footers, g \in Footers}

\* a field is decoded from each of the two responses
CallDecode(reader) ==
    /\ call.fn = ""
    /\ call.arg.read.reader = reader
    /\ call' = [call EXCEPT
                   !.fn = call.arg.read.field,
                   !.res = [i \in 1..2 |->
                              DecodeField(call.arg.read, call.arg.body \o call.arg.footers[i])]]
    /\ UNCHANGED sessionVars

NextFooter == CallDecode("personal") \/ CallDecode("nhso") \/ CallDecode("laser")

SpecFooter == InitFooter /\ [][NextFooter]_vars

(***************************************************************************)
(* Properties                                                              *)
(***************************************************************************)
\* the notifications of a kind emitted by the last step
EmittedOf(kind) == {i \in 1..Len(emitted) : emitted[i].kind = kind}

\* the read cycles that have started
Started == {slot \in DOMAIN cycle : cycle[slot].st # "idle"}

\* the reads of the personal phase of a read cycle of the reader
ReaderReads == PersonalReads(personalFields)

\* the number of commands of the personal phase of a read cycle of the reader
PersonalCommandCount == 1 + 2 * Len(ReaderReads)

\* the text a date extractor converts
DateText(data) == Trim(BufferToString(SliceOff(data, 2)))

\* command i of a cycle has been answered, and has failed
FailedAt(cy, i) == i <= Len(cy.answers) /\ ~cy.answers[i].ok

\* command i of a cycle has been answered with a response
AnsweredAt(cy, i) == i <= Len(cy.answers) /\ cy.answers[i].ok


\* C1: a 'card-removed' notification is emitted only by a removal notification
\* handled while cardInserted is true, which sets it to false; a removal
\* notification handled while cardInserted is false (as right after the activation
\* of a device) emits nothing and changes no state of the reader or of its cycles.
C1_RemovedOnlyWhenInserted ==
    [][ /\ EmittedOf("card-removed")' # {}
           => /\ cardInserted
              /\ ~cardInserted'
              /\ \E device \in Devices : handleCardRemoved(device)
              /\ Len(emitted') = 1
        /\ (~cardInserted /\ \E device \in Devices : handleCardRemoved(device))
           => /\ emitted' = <<>>
              /\ UNCHANGED <<isInitialized, cardInserted, devices, options, listeners, registered,
                             exited, cycle>> ]_vars

\* C1 witness: the removal of a card that was present has just emitted
\* 'card-removed' and cleared cardInserted
C1_Witness ==
    /\ EmittedOf("card-removed") # {}
    /\ ~cardInserted
    /\ registered # {}

\* C2: the request prefix of a cycle is 00 C0 00 01 when the reset response (of 2
\* bytes or more) begins with 3B 67, and 00 C0 00 00 otherwise.
C2_PrefixFromFirstTwoBytes ==
    \A slot \in Started :
        LET cy == cycle[slot]
        IN  Len(cy.atr) >= 2 =>
              cy.requestCommand =
                 IF cy.atr[1] = \H3b /\ cy.atr[2] = \H67
                 THEN <<\H00, \Hc0, \H00, \H01>>
                 ELSE <<\H00, \Hc0, \H00, \H00>>

\* the keys of the insurance record a cycle has put in its data
NhsoKeys(cy) == IF cy.data.nhso = <<>> THEN {} ELSE DOMAIN cy.data.nhso[1]

\* the fields of the insurance catalogue
NhsoFields == {NhsoReads[i].field : i \in 1..Len(NhsoReads)}

\* C3: when the insurance SELECT succeeded and the read of one field failed, the
\* insurance record of the cycle holds all 8 other fields, those after the failed
\* one included, and lacks only the failed one.
C3_NhsoOmitsOnlyFailedField ==
    \A slot \in Started :
        LET cy == cycle[slot]
        IN  (cy.nhsoSelected /\ cy.nhsoFailedAt # "" /\ cy.data.nhso # <<>>)
               => NhsoKeys(cy) = NhsoFields \ {cy.nhsoFailedAt}

\* a step of the personal phase of a cycle has failed: a command of the phase, or
\* the conversion of a date whose text is not 8 characters long
PersonalPhaseFailed(cy) ==
    \/ \E i \in 1..PersonalCommandCount : FailedAt(cy, i)
    \/ \E k \in 1..Len(ReaderReads) :
          /\ ReaderReads[k].field \in DateFields
          /\ AnsweredAt(cy, 1 + 2 * k)
          /\ Len(DateText(cy.answers[1 + 2 * k].data)) # 8

NhsoSelectFailed(cy) == FailedAt(cy, PersonalCommandCount + 1)

\* C5: when the insurance SELECT fails, no insurance field command is issued, the
\* next command is the SELECT of the identifier read, and the cycle ends with
\* 'card-data' whose record has no nhso key.
C5_NhsoSelectFailureAbsorbed ==
    /\ \A slot \in Started :
          LET cy == cycle[slot]
          IN  NhsoSelectFailed(cy) =>
                 /\ \A i \in 1..Len(cy.issued) :
                       cy.issued[i].phase = "nhso" => cy.issued[i].k = 0
                 /\ Len(cy.issued) >= PersonalCommandCount + 2
                 /\ cy.issued[PersonalCommandCount + 2].command = LaserSelect
                 /\ "nhso" \notin Keys(cy.data)
                 /\ cy.cardError = 0
                 /\ cy.st = "done" => cy.cardData = 1
    /\ \A i \in EmittedOf("card-data") :
          NhsoSelectFailed(cycle[emitted[i].slot]) => "nhso" \notin Keys(emitted[i].data)

\* C5 witness: 'card-data' has just been emitted by a cycle whose insurance SELECT
\* failed
C5_Witness ==
    \E i \in EmittedOf("card-data") : NhsoSelectFailed(cycle[emitted[i].slot])

\* a command of the identifier read of a cycle has failed
LaserFailed(cy) ==
    \E i \in 1..Len(cy.issued) : cy.issued[i].phase = "laser" /\ FailedAt(cy, i)

\* C6: when a command of the identifier read fails, the cycle still ends with
\* 'card-data', whose record has the key laserId with the empty string, and emits
\* no 'card-error'.
C6_LaserFailureYieldsEmptyString ==
    /\ \A slot \in Started :
          LET cy == cycle[slot]
          IN  LaserFailed(cy) =>
                 /\ cy.st = "done"
                 /\ cy.cardData = 1
                 /\ cy.cardError = 0
                 /\ "laserId" \in Keys(cy.data)
                 /\ cy.data.fields["laserId"] = <<>>
    /\ \A i \in 1..Len(emitted) :
          (emitted[i].slot # 0 /\ LaserFailed(cycle[emitted[i].slot]))
             => /\ emitted[i].kind = "card-data"
                /\ "laserId" \in Keys(emitted[i].data)
                /\ emitted[i].data.fields["laserId"] = <<>>

\* C6 witness: 'card-data' has just been emitted by a cycle whose identifier
\* re-read (the third command of the identifier read) failed
C6_Witness ==
    \E i \in EmittedOf("card-data") :
        LET cy == cycle[emitted[i].slot]
        IN  /\ LaserFailed(cy)
            /\ cy.issued[Len(cy.issued)].part = 2


\* the place of a phase in a read cycle
PhaseRank(phase) ==
    CASE phase = "personal" -> 1 [] phase = "nhso" -> 2 [] phase = "laser" -> 3

\* the commands of a cycle are issued one after the answer to the other, in the
\* order personal, insurance, identifier; the insurance SELECT comes right after the
\* last personal command, the identifier SELECT right after an insurance command
PhasesInOrder(cy) ==
    /\ Len(cy.issued) - Len(cy.answers) \in {0, 1}
    /\ \A i \in 1..Len(cy.issued) :
          /\ i > 1 => PhaseRank(cy.issued[i - 1].phase) <= PhaseRank(cy.issued[i].phase)
          /\ cy.issued[i].phase = "personal" => i <= PersonalCommandCount
          /\ cy.issued[i].phase = "nhso" =>
                /\ i > PersonalCommandCount
                /\ AnsweredAt(cy, PersonalCommandCount)
          /\ (cy.issued[i].phase = "nhso" /\ cy.issued[i].k = 0) =>
                i = PersonalCommandCount + 1
          /\ cy.issued[i].phase = "laser" => i > PersonalCommandCount + 1
          /\ (cy.issued[i].phase = "laser" /\ cy.issued[i].k = 0) =>
                cy.issued[i - 1].phase = "nhso"

\* the identifier phase of a cycle has started and its last command is answered
LaserEnded(cy) ==
    /\ cy.issued # <<>>
    /\ cy.issued[Len(cy.issued)].phase = "laser"
    /\ Len(cy.answers) = Len(cy.issued)

\* C7: in a cycle the personal commands come first, then the insurance ones, then
\* the identifier ones, each phase starting after the one before it has ended, and
\* 'card-data' is emitted after the identifier phase has ended.
C7_PhaseOrder ==
    /\ \A slot \in Started :
          /\ PhasesInOrder(cycle[slot])
          /\ cycle[slot].cardData > 0 => LaserEnded(cycle[slot])
    /\ \A i \in EmittedOf("card-data") : LaserEnded(cycle[emitted[i].slot])

\* C7 witness: 'card-data' has just been emitted by a cycle that read a full
\* insurance record and the identifier
C7_Witness ==
    \E i \in EmittedOf("card-data") :
        LET cy == cycle[emitted[i].slot]
        IN  /\ NhsoKeys(cy) = NhsoFields
            /\ AnsweredAt(cy, Len(cy.issued))

\* C8: the request prefix of a cycle is the one determined from the reset response
\* at its start, and every second-phase command of the cycle, in each phase,
\* is that prefix followed by one length byte.
C8_PrefixUsedThroughout ==
    \A slot \in Started :
        LET cy == cycle[slot]
        IN  /\ cy.requestCommand = determineRequestCommand(cy.atr)
            /\ \A i \in 1..Len(cy.issued) :
                  cy.issued[i].part = 2 =>
                     /\ Len(cy.issued[i].command) = 5
                     /\ SubSeq(cy.issued[i].command, 1, 4) = cy.requestCommand

\* C8 witness: a cycle with the alternate prefix has ended with 'card-data' after
\* second-phase commands in the three phases
C8_Witness ==
    \E slot \in Started :
        LET cy == cycle[slot]
        IN  /\ cy.requestCommand = <<\H00, \Hc0, \H00, \H01>>
            /\ cy.cardData = 1
            /\ \A phase \in {"personal", "nhso", "laser"} :
                  \E i \in 1..Len(cy.issued) :
                      cy.issued[i].phase = phase /\ cy.issued[i].part = 2

\* the read command of the read an issued command belongs to
ReadCommand(e) ==
    IF e.phase = "personal" THEN ReaderReads[e.k].command ELSE NhsoReads[e.k].command

\* command j of a cycle, if there is one, belongs to another read than command e
OtherRead(cy, e, j) ==
    (j >= 1 /\ j <= Len(cy.issued)) =>
       (cy.issued[j].phase # e.phase \/ cy.issued[j].k # e.k)

\* within a phase the reads of a cycle never go back
ReadsAdvance(cy, i) ==
    (i > 1 /\ cy.issued[i - 1].phase = cy.issued[i].phase) =>
       cy.issued[i - 1].k <= cy.issued[i].k

\* the value the cycle keeps for the read of command e comes from the buffer data
KeptFrom(cy, e, data) ==
    IF e.phase = "nhso"
    THEN LET field == NhsoReads[e.k].field
         IN  /\ field \in DOMAIN cy.nhsoData
             /\ cy.nhsoData[field] = ExtractNhsoField(field, data)
    ELSE LET field == ReaderReads[e.k].field
         IN  IF field = "photo"
             THEN \E s \in 1..Len(cy.photoHexParts) :
                     /\ ReaderReads[e.k].command = PHOTO_COMMANDS[s]
                     /\ cy.photoHexParts[s] = photoHexPart(data)
             ELSE ExtractPersonalField(field, data).ok =>
                     /\ field \in DOMAIN cy.extractedData
                     /\ cy.extractedData[field] = ExtractPersonalField(field, data).val

\* C9: a two-phase read with read command C and prefix P issues C, and after the
\* answer to C issues P followed by the last byte of C, and nothing else; when C
\* fails the second command is not issued; what is kept is the second response.
C9_TwoPhaseRead ==
    \A slot \in Started :
        LET cy == cycle[slot]
        IN  \A i \in 1..Len(cy.issued) :
               LET e == cy.issued[i]
                   C == ReadCommand(e)
               IN  (e.phase \in {"personal", "nhso"} /\ e.k >= 1) =>
                      /\ ReadsAdvance(cy, i)
                      /\ e.part = 1 =>
                            /\ e.command = C
                            /\ OtherRead(cy, e, i - 1)
                            /\ AnsweredAt(cy, i) =>
                                  /\ Len(cy.issued) > i
                                  /\ cy.issued[i + 1] =
                                        [e EXCEPT !.part = 2,
                                                  !.command = cy.requestCommand \o <<C[Len(C)]>>]
                            /\ FailedAt(cy, i) => OtherRead(cy, e, i + 1)
                      /\ e.part = 2 =>
                            /\ cy.issued[i - 1] = [e EXCEPT !.part = 1, !.command = C]
                            /\ AnsweredAt(cy, i - 1)
                            /\ OtherRead(cy, e, i + 1)
                            /\ AnsweredAt(cy, i) => KeptFrom(cy, e, cy.answers[i].data)

\* C9 witness: a cycle in which two-phase reads returned their second response and
\* the first command of a later read failed
C9_Witness ==
    \E slot \in Started :
        LET cy == cycle[slot]
        IN  /\ cy.nhsoFailedAt = "subInscl"
            /\ \E i \in 1..Len(cy.issued) :
                  cy.issued[i].phase = "nhso" /\ cy.issued[i].k = 2
                     /\ cy.issued[i].part = 1 /\ FailedAt(cy, i)
            /\ "mainInscl" \in DOMAIN cy.nhsoData

\* a string of 8 decimal digits
IsDigits8(s) == Len(s) = 8 /\ \A i \in 1..8 : s[i] \in 48..57

\* C10: for every string D of 8 decimal digits, each date converter yields a string
\* YYYY-MM-DD whose 4-digit year is the year of D minus 543 and whose month and day
\* are those of D.
C10_DateConversion ==
    (call.fn \in {"convertBuddhistToGregorianDate", "convertBuddhistDate"}
        /\ IsDigits8(call.arg)) =>
       LET D    == call.arg
           year == (D[1] - 48) * 1000 + (D[2] - 48) * 100 + (D[3] - 48) * 10 + (D[4] - 48)
           out  == call.res.val
       IN  /\ call.res.ok
           /\ Len(out) = 10
           /\ out[5] = 45
           /\ out[8] = 45
           /\ \A i \in 1..4 : out[i] \in 48..57
           /\ (out[1] - 48) * 1000 + (out[2] - 48) * 100 + (out[3] - 48) * 10 + (out[4] - 48)
                 = year - 543
           /\ SubSeq(out, 6, 7) = SubSeq(D, 5, 6)
           /\ SubSeq(out, 9, 10) = SubSeq(D, 7, 8)

\* C11: a date field whose text is not 8 characters long: in the personal phase it
\* ends the cycle at once with 'card-error' and without 'card-data'; in the
\* insurance phase the field is in the insurance record as the empty string and
\* the read of the next insurance field follows.
C11_MalformedDatePolicies ==
    \A slot \in Started :
        LET cy == cycle[slot]
        IN  \A i \in 1..Len(cy.issued) :
               LET e == cy.issued[i]
               IN  (e.part = 2 /\ e.k >= 1 /\ AnsweredAt(cy, i)
                       /\ Len(DateText(cy.answers[i].data)) # 8) =>
                      /\ (e.phase = "personal" /\ ReaderReads[e.k].field \in DateFields) =>
                            /\ cy.st = "done"
                            /\ cy.cardError = 1
                            /\ cy.cardData = 0
                            /\ Len(cy.issued) = i
                      /\ (e.phase = "nhso" /\ NhsoReads[e.k].field \in DateFields) =>
                            /\ NhsoReads[e.k].field \in DOMAIN cy.nhsoData
                            /\ cy.nhsoData[NhsoReads[e.k].field] = <<>>
                            /\ Len(cy.issued) > i
                            /\ cy.issued[i + 1].phase = "nhso"
                            /\ cy.issued[i + 1].k = e.k + 1
                            /\ cy.issued[i + 1].part = 1
                            /\ cy.cardError = 0
                            /\ cy.cardData = 1 =>
                                  /\ cy.data.nhso # <<>>
                                  /\ NhsoReads[e.k].field \in DOMAIN cy.data.nhso[1]
                                  /\ cy.data.nhso[1][NhsoReads[e.k].field] = <<>>

\* C11 witness: 'card-data' has just been emitted by a cycle whose insurance issue
\* date was one digit short: the record has it as '' and has the later fields
C11_Witness ==
    \E i \in EmittedOf("card-data") :
        LET nhso == emitted[i].data.nhso
        IN  /\ nhso # <<>>
            /\ DOMAIN nhso[1] = NhsoFields
            /\ nhso[1]["issueDate"] = <<>>
            /\ nhso[1]["expireDate"] # <<>>

\* the places of '#' in a text
HashPositions(s) == {i \in 1..Len(s) : s[i] = 35}

\* the place of the n-th '#' of a text: 0 for n = 0, past the end when there is none
NthHash(s, n) ==
    IF n = 0 THEN 0
    ELSE IF n > Cardinality(HashPositions(s)) THEN Len(s) + 1
    ELSE CHOOSE i \in HashPositions(s) : Cardinality({j \in HashPositions(s) : j <= i}) = n

\* the '#'-separated tokens of a text, in order
TokensOf(s) ==
    [n \in 1..(Cardinality(HashPositions(s)) + 1) |->
        SubSeq(s, NthHash(s, n - 1) + 1, NthHash(s, n) - 1)]

\* a text without its leading and trailing spaces
Stripped(t) ==
    LET ns == {i \in 1..Len(t) : t[i] # 32}
    IN  IF ns = {} THEN <<>>
        ELSE SubSeq(t, CHOOSE i \in ns : \A j \in ns : i <= j,
                       CHOOSE i \in ns : \A j \in ns : i >= j)

\* texts put one after the other with one space between two of them
RECURSIVE SpaceJoined(_)
SpaceJoined(parts) ==
    IF Len(parts) = 0 THEN <<>>
    ELSE IF Len(parts) = 1 THEN parts[1]
    ELSE SpaceJoined(SubSeq(parts, 1, Len(parts) - 1)) \o <<32>> \o parts[Len(parts)]

\* the first four tokens of a text, stripped, without the empty ones
NameTokens(s) ==
    LET tokens == TokensOf(s)
        count  == IF Len(tokens) < 4 THEN Len(tokens) ELSE 4
    IN  SelectSeq([n \in 1..count |-> Stripped(tokens[n])], LAMBDA t : t # <<>>)

\* C12: the name made of a decoded text is its first four '#'-separated tokens,
\* each stripped, the empty ones dropped, joined in order with single spaces; it
\* has no '#' and no space at either end, and "A#B#C#" gives "A B C".
C12_NameParsing ==
    call.fn = "extractThaiName" =>
       LET out == call.res.val
       IN  /\ call.res.ok
           /\ out = SpaceJoined(NameTokens(call.arg))
           /\ \A i \in 1..Len(out) : out[i] # 35
           /\ out # <<>> => (out[1] # 32 /\ out[Len(out)] # 32)
           /\ call.arg = <<65, 35, 66, 35, 67, 35>> => out = <<65, 32, 66, 32, 67>>

\* C12 witness: the name of a text of six tokens, the third one empty, has been made
C12_Witness ==
    /\ call.fn = "extractThaiName"
    /\ call.arg = <<65, 35, 66, 35, 35, 65, 35, 66, 35, 65>>
    /\ call.res.val = <<65, 32, 66, 32, 65>>

\* C13: the address made of a decoded text is its '#'-separated tokens that are not
\* blank, as they are, joined in order with single spaces, the whole stripped; a
\* blank text gives the empty string.
C13_AddressOutput ==
    call.fn = "extractAddress" =>
       LET tokens == SelectSeq(TokensOf(call.arg), LAMBDA t : Stripped(t) # <<>>)
       IN  /\ call.res.ok
           /\ call.res.val = Stripped(SpaceJoined(tokens))
           /\ Stripped(call.arg) = <<>> => call.res.val = <<>>

\* C13 witness: the address of " A # B " has been made: "A   B", its tokens as they
\* are
C13_Witness ==
    /\ call.fn = "extractAddress"
    /\ call.arg = <<32, 65, 32, 35, 32, 66, 32>>
    /\ call.res.val = <<65, 32, 32, 32, 66>>

\* the read of photo segment s among the reads of the personal phase
PhotoRead(s) == Len(ReaderReads) - Len(PHOTO_COMMANDS) + s

\* the bytes of photo segment s a card answered in a cycle, without the footer
Segment(cy, s) == SliceOff(cy.answers[1 + 2 * PhotoRead(s)].data, 2)

\* the bytes of the photo segments 1..s of a cycle, in order
RECURSIVE Segments(_, _)
Segments(cy, s) == IF s = 0 THEN <<>> ELSE Segments(cy, s - 1) \o Segment(cy, s)

\* C14: the photo segments are read in the order 1..20, each by the two commands
\* of a two-phase read; the bytes handed to the image encoder are the answered
\* segments without their footers, in that order, and the photo is made of them.
C14_PhotoReassembly ==
    \A slot \in Started :
        LET cy == cycle[slot]
        IN  /\ \A s \in 1..Len(cy.photoHexParts) :
                  /\ AnsweredAt(cy, 1 + 2 * PhotoRead(s))
                  /\ cy.issued[2 * PhotoRead(s)].command = PHOTO_COMMANDS[s]
                  /\ cy.issued[1 + 2 * PhotoRead(s)].command =
                        cy.requestCommand \o <<PHOTO_COMMANDS[s][Len(PHOTO_COMMANDS[s])]>>
                  /\ s > 1 => cy.issued[2 * PhotoRead(s) - 1].command =
                        cy.requestCommand \o <<PHOTO_COMMANDS[s - 1][Len(PHOTO_COMMANDS[s - 1])]>>
                  /\ HexToBytes(cy.photoHexParts[s]) = Segment(cy, s)
            /\ "photo" \in DOMAIN cy.extractedData =>
                  LET all == Segments(cy, Len(PHOTO_COMMANDS))
                  IN  /\ Len(cy.photoHexParts) = Len(PHOTO_COMMANDS)
                      /\ HexToBytes(Join(cy.photoHexParts, <<>>)) = all
                      /\ cy.extractedData["photo"] = hex2imagebase64(BufferToHex(all))
                      /\ \A i \in 1..Len(all) : all[i] \notin {\H90, \H00}

\* C14 witness: 'card-data' has just been emitted with the photo of 20 segments
\* that begin with the bytes 01 7B and end with the bytes 14 68
C14_Witness ==
    \E i \in EmittedOf("card-data") :
        LET cy    == cycle[emitted[i].slot]
            bytes == HexToBytes(Join(cy.photoHexParts, <<>>))
        IN  /\ "photo" \in DOMAIN emitted[i].data.fields
            /\ Len(bytes) = 2 * Len(PHOTO_COMMANDS)
            /\ SubSeq(bytes, 1, 2) = <<\H01, \H7b>>
            /\ SubSeq(bytes, Len(bytes) - 1, Len(bytes)) = <<\H14, \H68>>

\* the personal fields
PersonalFieldSet == {PersonalOrder[i] : i \in 1..Len(PersonalOrder)}

\* C15 as claimed: PersonalApplet.getInfo called without a field set resolves
\* with a record of all ten personal fields.
C15_DefaultIsAllFields ==
    \A slot \in Started :
        LET cy == cycle[slot]
        IN  (cy.caller = "applet" /\ ~cy.args.given /\ cy.st = "resolved")
               => DOMAIN cy.extractedData = PersonalFieldSet

\* C15 amended: PersonalApplet.getInfo called without a field set reads the
\* citizen identifier only: it issues the SELECT and the two commands of that
\* read, and resolves with a record whose only key is cid.
C15_DefaultIsCitizenId ==
    \A slot \in Started :
        LET cy == cycle[slot]
        IN  (cy.caller = "applet" /\ ~cy.args.given) =>
               /\ Len(cy.issued) <= 3
               /\ Len(cy.issued) >= 2 => cy.issued[2].command = apduPerson.CMD_CID
               /\ Len(cy.issued) >= 3 =>
                     cy.issued[3].command = cy.requestCommand \o <<\H0d>>
               /\ cy.st = "resolved" =>
                     /\ Len(cy.issued) = 3
                     /\ DOMAIN cy.extractedData = {"cid"}

\* C15 witness: a call without a field set has resolved with the citizen identifier
C15_Witness ==
    \E slot \in Started :
        LET cy == cycle[slot]
        IN  /\ cy.caller = "applet"
            /\ ~cy.args.given
            /\ cy.st = "resolved"
            /\ cy.extractedData["cid"] = <<49>>

\* the personal fields a call of getInfo asks for
Requested(cy) ==
    IF cy.args.given
    THEN {f \in PersonalFieldSet : \E i \in 1..Len(cy.args.fields) : cy.args.fields[i] = f}
    ELSE {"cid"}

\* the read commands of the fields of a set, in the fixed order of the fields, from
\* field i on
RECURSIVE CommandsInOrder(_, _)
CommandsInOrder(fields, i) ==
    IF i > Len(PersonalOrder) THEN <<>>
    ELSE (IF PersonalOrder[i] \notin fields THEN <<>>
          ELSE IF PersonalOrder[i] = "photo" THEN PHOTO_COMMANDS
          ELSE <<PersonalCommand(PersonalOrder[i])>>) \o CommandsInOrder(fields, i + 1)

\* C16: a call of getInfo issues the personal SELECT once, as its first command,
\* also for an empty field set; then the read commands of the requested personal
\* fields and no others, in the fixed order of the fields whatever the order of
\* the argument; when it resolves its record has exactly the requested personal
\* fields as keys.
C16_SelectOnceThenFixedOrder ==
    \A slot \in Started :
        LET cy       == cycle[slot]
            expected == CommandsInOrder(Requested(cy), 1)
        IN  cy.caller = "applet" =>
               /\ cy.issued[1].command = apduPerson.SELECT \o apduPerson.THAI_CARD
               /\ Len(cy.issued) <= 1 + 2 * Len(expected)
               /\ \A i \in 2..Len(cy.issued) :
                     /\ cy.issued[i].command # cy.issued[1].command
                     /\ i % 2 = 0 =>
                           /\ cy.issued[i].part = 1
                           /\ cy.issued[i].command = expected[i \div 2]
                     /\ i % 2 = 1 =>
                           /\ cy.issued[i].part = 2
                           /\ SubSeq(cy.issued[i].command, 1, 4) = cy.requestCommand
               /\ cy.st = "resolved" =>
                     /\ Len(cy.issued) = 1 + 2 * Len(expected)
                     /\ DOMAIN cy.extractedData = Requested(cy)

\* C16 witness: getInfo(['photo', 'cid']) has resolved after the SELECT, the read
\* of cid and then the 20 reads of the photo
C16_Witness ==
    \E slot \in Started :
        LET cy == cycle[slot]
        IN  /\ cy.caller = "applet"
            /\ cy.args = Fields(<<"photo", "cid">>)
            /\ cy.st = "resolved"
            /\ Len(cy.issued) = 43
            /\ cy.issued[2].command = apduPerson.CMD_CID
            /\ cy.issued[4].command = apduPerson.CMD_PHOTO1

\* C16 witness of the empty field set: getInfo([]) has resolved after the SELECT alone
C16_WitnessEmpty ==
    \E slot \in Started :
        /\ cycle[slot].args = Fields(<<>>)
        /\ cycle[slot].st = "resolved"
        /\ Len(cycle[slot].issued) = 1

\* the read cycles that fail in a step
FailingCycles ==
    {slot \in DOMAIN cycle : cycle'[slot].cardError > cycle[slot].cardError}

\* C17: the process ends only in the step in which a read cycle fails, with the
\* option true (the default when it is left out), and that step emits the
\* 'card-error' of the cycle; with the option false the process never ends; a
\* device error and an incorrect card never end it.
C17_ExitOnReadError ==
    [][ /\ validateAndSetOptions("undefined").exitOnReadError
        /\ validateAndSetOptions("true").exitOnReadError
        /\ ~validateAndSetOptions("false").exitOnReadError
        /\ \A slot \in FailingCycles :
              /\ exited' = options.exitOnReadError
              /\ \E i \in EmittedOf("card-error")' : emitted'[i].slot = slot
        /\ exited' => (exited \/ FailingCycles # {})
        /\ ~options.exitOnReadError => ~exited'
        /\ (handleDeviceError \/ \E device \in Devices : handleCardError(device))
              => ~exited' ]_vars

\* C17 witness: the process has ended in the step that emitted the 'card-error' of
\* a failed read cycle
C17_Witness ==
    /\ exited
    /\ options.exitOnReadError
    /\ \E i \in EmittedOf("card-error") : cycle[emitted[i].slot].cardError = 1

\* the read cycles in flight
InFlight == {slot \in DOMAIN cycle : cycle[slot].st = "busy"}

\* C18: only one read cycle runs at a time: a read cycle issues its first command
\* only when no earlier read cycle is still short of its 'card-data' or
\* 'card-error'.
C18_OneCycleAtATime == Cardinality(InFlight) <= 1

\* a handler of a driver notification runs in a step
HandlerRuns ==
    \/ \E device \in Devices : handleDeviceConnected(device)
    \/ \E device \in Devices : handleDeviceDisconnected(device)
    \/ handleDeviceError
    \/ \E slot \in DOMAIN cycle, device \in Devices, atr \in AtrSet :
          handleCardInserted(slot, device, atr)
    \/ \E device \in Devices : handleCardRemoved(device)
    \/ \E device \in Devices : handleCardError(device)

\* C19: a read cycle runs to completion before the next notification is processed:
\* while a read cycle is short of its 'card-data' or 'card-error' no handler of a
\* driver notification runs, every notification that goes out is the cycle's own,
\* and cardInserted does not change.
C19_CycleRunsToCompletion ==
    [][ InFlight # {} =>
          /\ ~HandlerRuns
          /\ cardInserted' = cardInserted
          /\ \A i \in DOMAIN emitted' : emitted'[i].slot \in InFlight ]_vars

\* the place of an issued command in the dialogue of a read cycle
Position(e) == <<PhaseRank(e.phase), e.k, e.part>>

\* the place a comes before the place b
Before(a, b) ==
    \/ a[1] < b[1]
    \/ a[1] = b[1] /\ a[2] < b[2]
    \/ a[1] = b[1] /\ a[2] = b[2] /\ a[3] < b[3]

\* every command of the cycle is at a later place of the dialogue than the one
\* before it, so that no place is issued twice
NoRetries(cy) ==
    \A i \in 2..Len(cy.issued) :
        Before(Position(cy.issued[i - 1]), Position(cy.issued[i]))

\* every command the cycle has issued has been answered with a response
EveryCommandSucceeded(cy) ==
    /\ Len(cy.answers) = Len(cy.issued)
    /\ \A i \in 1..Len(cy.answers) : cy.answers[i].ok

\* the commands of the two-phase reads of a list of reads
TwoPhaseCommands(reads, req) ==
    [i \in 1..(2 * Len(reads)) |->
        IF i % 2 = 1 THEN reads[(i + 1) \div 2].command
        ELSE LET C == reads[i \div 2].command IN req \o <<C[Len(C)]>>]

\* the fixed dialogue of a read cycle
FullDialogue(req) ==
    <<initializeCard>> \o TwoPhaseCommands(ReaderReads, req)
       \o <<initializeNhsoCard>> \o TwoPhaseCommands(NhsoReads, req)
       \o <<getLaserSelect(req), getLaserFirst(req), getLaserSecond(req)>>

\* the commands the cycle has issued are the 81 commands of the fixed dialogue
IssuedFullDialogue(cy) ==
    /\ Len(cy.issued) = 81
    /\ Len(ReaderReads) = 9 + 20
    /\ Len(NhsoReads) = 9
    /\ [i \in 1..Len(cy.issued) |-> cy.issued[i].command] = FullDialogue(cy.requestCommand)

\* C20 as stated: no command of a read cycle is issued twice, and a cycle that has
\* ended and in which every command succeeded has issued exactly the 81 commands
\* of the fixed dialogue.
C20_NoRetriesAllSucceed ==
    \A slot \in Started :
        LET cy == cycle[slot]
        IN  /\ NoRetries(cy)
            /\ (cy.st = "done" /\ EveryCommandSucceeded(cy)) => IssuedFullDialogue(cy)

\* C20, amended: no command of a read cycle is issued twice, and a cycle that has
\* ended with 'card-data' and in which every command succeeded has issued exactly
\* the 81 commands of the fixed dialogue.
C20_NoRetriesCardData ==
    \A slot \in Started :
        LET cy == cycle[slot]
        IN  /\ NoRetries(cy)
            /\ (cy.st = "done" /\ cy.cardData = 1 /\ EveryCommandSucceeded(cy))
                  => IssuedFullDialogue(cy)

\* C20 witness: 'card-data' has just been emitted by a cycle whose 81 commands all
\* succeeded
C20_Witness ==
    \E i \in EmittedOf("card-data") :
        LET cy == cycle[emitted[i].slot]
        IN  EveryCommandSucceeded(cy) /\ Len(cy.issued) = 81

\* C20 witness: a command of a cycle has failed and the cycle has gone on to later
\* commands without issuing it again
C20_WitnessFailed ==
    \E slot \in Started :
        LET cy == cycle[slot]
        IN  \E i \in 1..Len(cy.answers) : ~cy.answers[i].ok /\ Len(cy.issued) > i

\* the kinds of the notifications emitted by the last step, in order
EmittedKinds == [i \in 1..Len(emitted) |-> emitted[i].kind]

\* C21: a disconnection notification of the driver emits one 'device-disconnected'
\* with status 404 and nothing else (no 'card-removed'), leaves cardInserted false
\* and does not change isInitialized.
C21_Disconnection ==
    [][ (\E device \in Devices : handleDeviceDisconnected(device)) =>
          /\ EmittedKinds' = <<"device-disconnected">>
          /\ emitted'[1].status = 404
          /\ ~cardInserted'
          /\ isInitialized' = isInitialized ]_vars

\* C21 witness: a disconnection has just been handled while a read cycle was in
\* flight
C21_Witness ==
    /\ EmittedKinds = <<"device-disconnected">>
    /\ ~cardInserted
    /\ InFlight # {}

\* C22: a card error notification of the driver emits one 'card-incorrect' with
\* status 400 and nothing else (no 'card-error', no 'card-removed'), and leaves
\* cardInserted and isInitialized as they were.
C22_IncorrectCard ==
    [][ (\E device \in Devices : handleCardError(device)) =>
          /\ EmittedKinds' = <<"card-incorrect">>
          /\ emitted'[1].status = 400
          /\ cardInserted' = cardInserted
          /\ isInitialized' = isInitialized ]_vars

\* C22 witness: a card error has just been handled with a card present
C22_Witness ==
    /\ EmittedKinds = <<"card-incorrect">>
    /\ cardInserted
    /\ isInitialized

\* C22 witness: a card error has just been handled with no card present, on a
\* reader that has been destroyed
C22_WitnessDestroyed ==
    /\ EmittedKinds = <<"card-incorrect">>
    /\ ~cardInserted
    /\ ~isInitialized

\* C23: destroy can be called in every state of a running process; right after it
\* isInitialized and cardInserted are false, the driver handle is released and the
\* application's listeners are removed; and init on a reader that is not
\* initialized does not raise: it makes the reader initialized with a driver handle.
C23_Destroy ==
    [][ /\ ~exited => ENABLED destroy
        /\ destroy =>
              (~isInitialized' /\ ~cardInserted' /\ ~devices' /\ ~listeners')
        /\ (init /\ ~isInitialized) => (isInitialized' /\ devices') ]_vars

\* C23 witness: the reader has been destroyed with a read cycle in flight
C23_Witness ==
    /\ ~isInitialized
    /\ ~devices
    /\ ~listeners
    /\ ~cardInserted
    /\ emitted = <<>>
    /\ InFlight # {}

\* init on an initialized reader raises and changes nothing
InitRaisesUnchanged ==
    (init /\ isInitialized) =>
       UNCHANGED <<isInitialized, cardInserted, devices, options, listeners, registered,
                   exited, cycle>>

\* C24: init on an initialized reader raises and changes nothing; init on a reader
\* that is not initialized makes isInitialized true and leaves cardInserted false.
C24_Init ==
    [][ /\ InitRaisesUnchanged
        /\ (init /\ ~isInitialized) => (isInitialized' /\ ~cardInserted') ]_vars

\* the status the specification fixes for a kind of notification
KindStatus(kind) ==
    CASE kind = "device-connected"    -> 201
      [] kind = "device-disconnected" -> 404
      [] kind = "card-inserted"       -> 202
      [] kind = "card-removed"        -> 205
      [] kind = "card-data"           -> 200
      [] kind = "card-incorrect"      -> 400
      [] kind = "card-error"          -> 500

\* C25: every notification carries the status fixed for its kind: 201 for
\* 'device-connected', 404 for 'device-disconnected', 202 for 'card-inserted', 205
\* for 'card-removed', 200 for 'card-data', 400 for 'card-incorrect' and 500 for
\* 'card-error', from a failed read cycle and from a device error alike.
C25_StatusOfKind ==
    \A i \in 1..Len(emitted) :
        /\ emitted[i].kind \in
              {"device-connected", "device-disconnected", "card-inserted", "card-removed",
               "card-data", "card-incorrect", "card-error"}
        /\ emitted[i].status = KindStatus(emitted[i].kind)

\* C25 witness: a device error has just emitted 'card-error' after a read cycle had
\* emitted its own
C25_Witness ==
    /\ \E i \in EmittedOf("card-error") : emitted[i].slot = 0 /\ emitted[i].status = 500
    /\ \E slot \in Started : cycle[slot].cardError = 1

\* C26: cardInserted goes from false to true only in the handling of an insertion
\* whose card gave its reset response, which emits 'card-inserted'; an insertion
\* whose reset response cannot be had leaves cardInserted as it is and emits no
\* 'card-inserted'; cardInserted goes from true to false only in the handling of a
\* removal or of a disconnection, or in destroy.
C26_CardInsertedChanges ==
    [][ /\ (~cardInserted /\ cardInserted') =>
              /\ \E slot \in DOMAIN cycle, device \in Devices, atr \in AtrSet :
                    handleCardInserted(slot, device, atr)
              /\ EmittedOf("card-inserted")' # {}
        /\ (\E device \in Devices : handleCardInsertedThrown(device)) =>
              /\ cardInserted' = cardInserted
              /\ EmittedOf("card-inserted")' = {}
        /\ (cardInserted /\ ~cardInserted') =>
              \/ \E device \in Devices : handleCardRemoved(device)
              \/ \E device \in Devices : handleDeviceDisconnected(device)
              \/ destroy ]_vars

\* C26 witness: an insertion has just set cardInserted and emitted 'card-inserted'
C26_Witness ==
    /\ cardInserted
    /\ EmittedOf("card-inserted") # {}
    /\ isInitialized

\* the read commands (first phase) the insurance applet has issued in a cycle
NhsoReadCommands(cy) ==
    LET reads == SelectSeq(cy.issued,
                           LAMBDA e : e.phase = "nhso" /\ e.k >= 1 /\ e.part = 1)
    IN  [i \in 1..Len(reads) |-> reads[i].command]

\* the insurance SELECT of the cycle has been answered and the cycle has gone on to
\* the identifier
NhsoEndedAfterSelect(cy) ==
    /\ AnsweredAt(cy, PersonalCommandCount + 1)
    /\ cy.issued[Len(cy.issued)].phase = "laser"

\* C27: after an answered insurance SELECT the insurance applet issues the read
\* commands of all 9 catalogue fields, in the order of the catalogue, whether or not
\* the read of an earlier field has failed.
C27_NhsoAllFieldsIssued ==
    \A slot \in Started :
        LET cy == cycle[slot]
        IN  NhsoEndedAfterSelect(cy) =>
               NhsoReadCommands(cy) = [k \in 1..Len(NhsoReads) |-> NhsoReads[k].command]

\* the bytes of a response before its 2-byte footer, without the null bytes and
\* without leading and trailing spaces
WithoutNulStripped(data) ==
    Stripped(SelectSeq(SubSeq(data, 1, Len(data) - 2), LAMBDA c : c # 0))

\* the identifier read of a cycle but for its re-read: the SELECT of an applet of
\* its own, then the read command after the answer to the SELECT, then the re-read
\* after the answer to the read command; the identifier kept is the re-read's
\* response without footer, null bytes and surrounding spaces
LaserDialogue(cy) ==
    \A i \in 1..Len(cy.issued) :
        LET e == cy.issued[i]
        IN  e.phase = "laser" =>
               /\ (e.k = 0) =>
                     /\ e.command = LaserSelect
                     /\ e.command \notin {initializeCard, initializeNhsoCard}
                     /\ cy.issued[i - 1].phase = "nhso"
               /\ (e.k = 1 /\ e.part = 1) =>
                     /\ e.command = LaserCommand
                     /\ cy.issued[i - 1].phase = "laser" /\ cy.issued[i - 1].k = 0
                     /\ AnsweredAt(cy, i - 1)
               /\ (e.k = 1 /\ e.part = 2) =>
                     /\ cy.issued[i - 1].command = LaserCommand
                     /\ AnsweredAt(cy, i - 1)
                     /\ i = Len(cy.issued)
                     /\ AnsweredAt(cy, i) =>
                           /\ "laserId" \in DOMAIN cy.data.fields
                           /\ cy.data.fields["laserId"] =
                                 WithoutNulStripped(cy.answers[i].data)

\* the re-reads of the identifier in a cycle, with the command before each
LaserRereads(cy) ==
    {i \in 1..Len(cy.issued) : cy.issued[i].phase = "laser" /\ cy.issued[i].part = 2}

\* C28 as stated: the identifier read is a two-phase read after a SELECT of its own:
\* its re-read is the request prefix followed by the last byte of its read command,
\* and it returns the re-read's response without footer, null bytes and
\* surrounding whitespace.
C28_LaserTwoPhaseSameLength ==
    \A slot \in Started :
        LET cy == cycle[slot]
        IN  /\ LaserDialogue(cy)
            /\ \A i \in LaserRereads(cy) :
                  LET C == cy.issued[i - 1].command
                  IN  cy.issued[i].command = cy.requestCommand \o <<C[Len(C)]>>

\* C28, amended: as stated, but the re-read is the request prefix followed by the
\* fixed length byte 0x10, which is not the last byte (0x07) of the read command.
C28_LaserTwoPhaseFixedLength ==
    \A slot \in Started :
        LET cy == cycle[slot]
        IN  /\ LaserDialogue(cy)
            /\ \A i \in LaserRereads(cy) :
                  LET C == cy.issued[i - 1].command
                  IN  /\ cy.issued[i].command = cy.requestCommand \o <<\H10>>
                      /\ C[Len(C)] = \H07

\* C28 witness: a cycle has ended with the identifier of the padded block
C28_Witness ==
    \E i \in EmittedOf("card-data") :
        LET cy == cycle[emitted[i].slot]
        IN  /\ LaserRereads(cy) # {}
            /\ cy.answers[Len(cy.answers)].data = LaserResponse
            /\ emitted[i].data.fields["laserId"] = <<49, 50>>

\* the cycle waits for the answer to the read command (first phase) of a read
AwaitsReadCommand(cy) == cy.st = "busy" /\ cy.k >= 1 /\ cy.part = 1

\* the cycle of a slot issues a command in a step
IssuesCommand(slot) ==
    \/ cycle[slot].st # "busy" /\ cycle'[slot].st = "busy"
    \/ Len(cycle'[slot].issued) > Len(cycle[slot].issued)

\* C29: the re-read of a read is the very next command the card receives after the
\* read command: while a cycle waits for the answer to a read command no other
\* cycle issues a command to the same card, and the next command of the cycle
\* itself, once the read command is answered, is the re-read.
C29_RereadFollowsRead ==
    [][ \A a \in DOMAIN cycle :
           AwaitsReadCommand(cycle[a]) =>
              /\ \A b \in DOMAIN cycle \ {a} :
                    IssuesCommand(b) => cycle'[b].dev # cycle[a].dev
              /\ (IssuesCommand(a) /\ AnsweredAt(cycle'[a], Len(cycle[a].issued))) =>
                    /\ cycle'[a].k = cycle[a].k
                    /\ cycle'[a].part = 2 ]_vars

\* the commands of a cycle that have no answer yet
Outstanding(cy) == Len(cy.issued) - Len(cy.answers)

\* C30: the command exchanges of a cycle are strictly sequential: a cycle in flight
\* has exactly one command without an answer, a cycle that has ended has none, and
\* a cycle issues a command only when it starts or when the answer to its
\* outstanding command arrives, one command at a time.
C30_SequentialExchanges ==
    [][ \A slot \in DOMAIN cycle :
           LET cy == cycle'[slot]
           IN  /\ cy.st = "busy" => Outstanding(cy) = 1
               /\ cy.st = "done" => Outstanding(cy) = 0
               /\ (cycle[slot].st = "busy" /\ cy.issued # cycle[slot].issued) =>
                     /\ Len(cy.answers) = Len(cycle[slot].answers) + 1
                     /\ Len(cy.issued) = Len(cycle[slot].issued) + 1
                     /\ SubSeq(cy.issued, 1, Len(cycle[slot].issued)) = cycle[slot].issued ]_vars

\* C30 witness: a cycle waits for the answer to one command after the failure of an
\* earlier one
C30_Witness ==
    \E slot \in Started :
        LET cy == cycle[slot]
        IN  /\ cy.st = "busy"
            /\ Outstanding(cy) = 1
            /\ \E i \in 1..Len(cy.answers) : ~cy.answers[i].ok

\* an insertion is handled in a step, starting the cycle of a slot
InsertionHandled(slot) ==
    \E device \in Devices, atr \in AtrSet : handleCardInserted(slot, device, atr)

\* C31: the handling of an insertion emits 'card-inserted' first, while
\* hasCardInserted() still gives the value from before, then sets cardInserted, then
\* issues the first command of the read cycle; so the 'card-data' or 'card-error'
\* of a cycle comes after the 'card-inserted' of its insertion.
C31_InsertionOrder ==
    [][ \A slot \in DOMAIN cycle :
           /\ InsertionHandled(slot) =>
                 /\ EmittedKinds' = <<"card-inserted">>
                 /\ emitted'[1].slot = slot
                 /\ emitted'[1].seen = cardInserted
                 /\ cardInserted'
                 /\ Len(cycle'[slot].issued) = 1
                 /\ cycle'[slot].answers = <<>>
                 /\ cycle'[slot].cardData + cycle'[slot].cardError = 0
           /\ (\E i \in DOMAIN emitted' :
                   emitted'[i].slot = slot /\ emitted'[i].kind \in {"card-data", "card-error"})
                 => (~InsertionHandled(slot) /\ cycle[slot].st = "busy") ]_vars

\* C31 witness: an insertion with no card present has just emitted 'card-inserted',
\* seen with hasCardInserted() false, and set cardInserted
C31_Witness ==
    /\ EmittedKinds = <<"card-inserted">>
    /\ ~emitted[1].seen
    /\ cardInserted
    /\ InFlight # {}

\* C32: the value a field read decodes does not depend on the last 2 bytes of the
\* response: two responses with the same bytes before their last 2 decode to the
\* same value, or both make the decoder throw.
C32_FooterIndependence ==
    (call.fn # "" /\ "read" \in DOMAIN call.arg) => call.res[1] = call.res[2]

\* C32 witness: the issuer has been decoded from " A#B " followed by two spaces and
\* from " A#B " followed by "#A", to the same text
C32_Witness ==
    /\ call.fn = "issuer"
    /\ call.arg.body = <<32, 65, 35, 66, 32>>
    /\ call.arg.footers = << <<32, 32>>, <<35, 65>> >>
    /\ call.res[1] = Value(<<65, 35, 66>>)
    /\ call.res[2] = Value(<<65, 35, 66>>)

\* the 16-bit offset a photo-segment command reads from
PhotoOffset(command) == 256 * command[3] + command[4]

\* the photo-segment read commands a cycle has issued, in order
PhotoCommandsIssued(cy) ==
    LET reads == SelectSeq(cy.issued,
                           LAMBDA e : e.phase = "personal" /\ e.part = 1 /\ e.k >= 1
                                         /\ Len(e.command) = 7 /\ e.command[7] = \Hff)
    IN  [i \in 1..Len(reads) |-> reads[i].command]

\* C33: the 20 photo-segment commands read one region of the card without gap or
\* overlap: each is [80, B0, offsetHi, offsetLo, 02, 00, FF] and asks for 255 bytes,
\* the first at offset 0x017B, each next one 255 further, the last at 0x1468; and
\* these are the segment commands a cycle issues, in this order.
C33_PhotoSegmentsContiguous ==
    /\ Len(PHOTO_COMMANDS) = 20
    /\ \A slot \in Started :
          LET segs == PhotoCommandsIssued(cycle[slot])
          IN  \A i \in 1..Len(segs) :
                 /\ segs[i] = PHOTO_COMMANDS[i]
                 /\ Len(segs[i]) = 7
                 /\ <<segs[i][1], segs[i][2]>> = <<\H80, \Hb0>>
                 /\ <<segs[i][5], segs[i][6], segs[i][7]>> = <<\H02, \H00, 255>>
                 /\ i = 1 => PhotoOffset(segs[i]) = 379
                 /\ i > 1 => PhotoOffset(segs[i]) = PhotoOffset(segs[i - 1]) + 255
                 /\ i = 20 => PhotoOffset(segs[i]) = 5224

\* C33 witness: a call of getInfo for the photo has read its 20 segments
C33_Witness ==
    \E slot \in Started :
        /\ Len(PhotoCommandsIssued(cycle[slot])) = 20
        /\ cycle[slot].st = "resolved"

\* a read cycle has failed and the process goes on
FailedCycles == {slot \in Started : cycle[slot].cardError = 1 /\ ~exited}

\* C34: with exitOnReadError false the failure of a read cycle changes nothing of
\* the session: the step that emits the cycle's 'card-error' leaves cardInserted,
\* isInitialized and the listeners as they were and the process running, so a
\* removal notification handled after it with cardInserted true still emits
\* 'card-removed'.
C34_FailureKeepsSession ==
    [][ /\ (FailingCycles # {} /\ ~options.exitOnReadError) =>
              /\ cardInserted' = cardInserted
              /\ isInitialized' = isInitialized
              /\ <<devices', registered'>> = <<devices, registered>>
              /\ ~exited'
        /\ (FailedCycles # {} /\ cardInserted
               /\ \E device \in Devices : handleCardRemoved(device)) =>
              (EmittedKinds' = <<"card-removed">> /\ ~cardInserted') ]_vars

\* C34 witness: after the failure of a read cycle, with the card still taken for
\* present, the removal of the card has just emitted 'card-removed'
C34_Witness ==
    /\ FailedCycles # {}
    /\ InFlight = {}
    /\ ~options.exitOnReadError
    /\ isInitialized
    /\ EmittedKinds = <<"card-removed">>

\* the outcomes of the cycle of a slot: the 'card-data' and the 'card-error' it has
\* emitted
Outcomes(slot) == cycle[slot].cardData + cycle[slot].cardError

\* a cycle has at most one outcome, none while it is in flight and one when it has
\* ended, and the outcome is emitted in the step that ends it
OneOutcome ==
    \A slot \in Slots :
        /\ cycle[slot].st = "busy" => Outcomes(slot) = 0
        /\ cycle[slot].st = "done" => Outcomes(slot) = 1
        /\ Cardinality({i \in DOMAIN emitted :
                           emitted[i].slot = slot
                             /\ emitted[i].kind \in {"card-data", "card-error"}}) <= 1

\* C35: every read cycle ends with exactly one outcome: when every command it
\* issues is answered or fails in the end, a cycle that has started ends, with one
\* 'card-data' or one 'card-error', never both and never two of one.
C35_OneOutcome ==
    /\ []OneOutcome
    /\ \A slot \in Slots :
          (cycle[slot].st = "busy") ~> (cycle[slot].st = "done" /\ Outcomes(slot) = 1)

\* C35 witness: a cycle has just ended with 'card-data', its only outcome
C35_Witness ==
    \E i \in EmittedOf("card-data") :
        /\ cycle[emitted[i].slot].st = "done"
        /\ Outcomes(emitted[i].slot) = 1

\* C36: in every state a reader that holds a card is initialized, whatever the
\* sequence of init(), destroy() and driver notifications, the insertions that come
\* through card listeners registered before destroy() included
C36_CardPresentInitialized == cardInserted => isInitialized

\* C37: with two devices on one reader, a removal signal from a device makes the
\* reader emit 'card-removed' only if an insertion on that same device was notified
\* and not yet followed by a removal on it
C37_RemovalOfInsertedDevice ==
    [][\A device \in Devices :
          (/\ handleCardRemoved(device)
           /\ \E i \in DOMAIN emitted' : emitted'[i].kind = "card-removed")
          => device \in cardsIn]_vars

\* the ten personal fields of a card record
TenPersonalFields ==
    {"cid", "name", "nameEn", "dob", "gender", "issuer", "issueDate", "expireDate",
     "address", "photo"}

\* C38: the record of every 'card-data' has the ten personal fields and the laserId
\* key, its three personal dates are not the empty string, and it has the insurance
\* field exactly when the insurance applet SELECT of its cycle was answered
C38_CardDataRecord ==
    \A i \in EmittedOf("card-data") :
       LET data == emitted[i].data
           cy   == cycle[emitted[i].slot]
       IN  /\ DOMAIN data.fields = TenPersonalFields \cup {"laserId"}
           /\ \A field \in {"dob", "issueDate", "expireDate"} : data.fields[field] # <<>>
           /\ ("nhso" \in Keys(data)) <=> AnsweredAt(cy, PersonalCommandCount + 1)

\* C38 witness: 'card-data' has just been emitted by a cycle whose insurance SELECT
\* was answered and whose first insurance read failed: its insurance record is empty
C38_Witness ==
    \E i \in EmittedOf("card-data") :
       /\ AnsweredAt(cycle[emitted[i].slot], PersonalCommandCount + 1)
       /\ emitted[i].data.nhso = <<EmptyObject>>

\* C39: a running reader emits 'card-data' only while it holds a card: when a
\* removal or a disconnection has been notified during a read cycle, the cycle emits
\* no 'card-data' afterwards
C39_CardDataOnlyWithCard ==
    \A i \in EmittedOf("card-data") : isInitialized => emitted[i].seen

====
